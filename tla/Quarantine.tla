----------------------------- MODULE Quarantine -----------------------------
(* The content addressed quarantine (worker/quarantine.py) as seen by one     *)
(* digest: the staging directory .incoming, the object that carries the       *)
(* digest as its name, and the calls of persist and get_verified that run     *)
(* at the same time in any number of threads and processes.  A file is        *)
(* identified with the staging name it is created under, which is a fresh     *)
(* uuid; its link count is the number of its names.                           *)
(*                                                                            *)
(* The file system is external.  What is assumed of it: link, unlink and      *)
(* open are atomic, fsync of a file keeps its bytes, and fsync of a directory *)
(* keeps its entries but not the path that leads to it.  After a loss of      *)
(* power an entry that changed since the last fsync may be found in either    *)
(* state.  No step of the program fsyncs the parent of a directory it made,   *)
(* so .incoming may be lost each time (initialize makes it again), and the    *)
(* directories of the digest until the file system writes them back by        *)
(* itself.                                                                    *)
EXTENDS Naturals

CONSTANTS
  Files,     \* staging files that are ever created
  Callers,   \* threads that call the store
  NoFile     \* no object has the digest yet

ASSUME ConstantsAssumption == NoFile \notin Files

VARIABLES
  bytes,      \* [Files -> {"none", "right", "other"}]: "right" has the digest
  synced,     \* files whose bytes were fsynced
  incoming,   \* the names in .incoming
  unsynced,   \* the names of .incoming that changed since its last fsync
  object,     \* the file whose name is the digest, or NoFile
  kept,       \* the leaf directory was fsynced since object was linked
  path,       \* the directories objects/sha256/ab/cd of the digest: "none",
              \* "new" (there, but not on disk for certain) or "lasting"
  pc,         \* where each caller is
  kind,       \* the operation of each caller
  file,       \* the staging file that a caller created
  returned,   \* history: the operations that have returned the object that is there
  alone       \* history: callers whose call overlapped no other call

directory == <<incoming, unsynced, object, kept, path>>
vars == <<bytes, synced, directory, pc, kind, file, returned, alone>>

Resting == {"idle", "returned", "missing", "discarded", "refused"}
Points == Resting \cup
          {"write", "link", "unlink", "open", "inspect", "match", "heal",
           "heal_sync_incoming", "heal_sync_leaf", "reopen",
           "lost_sync_incoming", "sync_incoming", "sync_leaf", "verify"}
InCall(p) == pc[p] \notin Resting

Links(f) == (IF object = f THEN 1 ELSE 0) + (IF f \in incoming THEN 1 ELSE 0)
-----------------------------------------------------------------------------
Init ==
  /\ bytes = [f \in Files |-> "none"]
  /\ synced = {} /\ incoming = {} /\ unsynced = {}
  /\ object = NoFile /\ kept = FALSE
  /\ path \in {"none", "new", "lasting"}
  /\ pc = [p \in Callers |-> "idle"]
  /\ kind = [p \in Callers |-> "get_verified"]
  /\ file = [p \in Callers |-> NoFile]
  /\ returned = {} /\ alone = {}

Goto(p, there) == pc' = [pc EXCEPT ![p] = there]

RemoveStaging(f) ==
  /\ incoming' = incoming \ {f}
  /\ unsynced' = unsynced \cup (incoming \cap {f})
  /\ UNCHANGED <<object, kept, path>>

SyncIncoming == unsynced' = {} /\ UNCHANGED <<incoming, object, kept, path>>
SyncLeaf ==
  kept' = (object # NoFile) /\ UNCHANGED <<incoming, unsynced, object, path>>

OpenLeaf == path' = IF path = "none" THEN "new" ELSE path

(* A call is alone when no other one runs at its beginning or begins before   *)
(* its end.                                                                   *)
Begins(p, operation) ==
  /\ ~InCall(p)
  /\ kind' = [kind EXCEPT ![p] = operation]
  /\ alone' = IF \A q \in Callers \ {p} : ~InCall(q) THEN {p} ELSE {}
  /\ UNCHANGED returned

Continues == UNCHANGED <<kind, file, returned, alone>>

(* Faulty variant: a publisher that lost the race returns without a sync of   *)
(* its own.                                                                   *)
VerifiedAtOnce(p) ==
  /\ Goto(p, "returned")
  /\ returned' = returned \cup {kind[p]}

(* get_verified returns an artifact at once; persist has yet to sync.         *)
Verified(p) ==
  IF kind[p] = "persist"
  THEN Goto(p, "sync_incoming") /\ UNCHANGED returned
  ELSE Goto(p, "returned") /\ returned' = returned \cup {"get_verified"}
-----------------------------------------------------------------------------
CreateStaging(p) ==
  /\ Begins(p, "persist")
  /\ \E f \in {g \in Files : bytes[g] = "none"} :
       /\ bytes' = [bytes EXCEPT ![f] = "other"]
       /\ incoming' = incoming \cup {f}
       /\ unsynced' = unsynced \cup {f}
       /\ file' = [file EXCEPT ![p] = f]
  /\ OpenLeaf
  /\ Goto(p, "write")
  /\ UNCHANGED <<synced, object, kept>>

(* Faulty variant: the file is not fsynced before it is linked. *)
WriteUnsynced(p) ==
  /\ pc[p] = "write"
  /\ bytes' = [bytes EXCEPT ![file[p]] = "right"]
  /\ Goto(p, "link")
  /\ UNCHANGED <<directory, synced>> /\ Continues

(* Bytes with another digest or size, too many of them, and any exception on  *)
(* the way discard the staging file.                                          *)
WriteRight(p) ==
  /\ pc[p] = "write"
  /\ bytes' = [bytes EXCEPT ![file[p]] = "right"]
  /\ synced' = synced \cup {file[p]}
  /\ Goto(p, "link")
  /\ UNCHANGED directory /\ Continues

Discard(p) ==
  /\ pc[p] = "write"
  /\ RemoveStaging(file[p])
  /\ Goto(p, "discarded")
  /\ UNCHANGED <<bytes, synced>> /\ Continues

(* Faulty variant: the object is put in place with a rename. *)
RenameObject(p) ==
  /\ pc[p] = "link"
  /\ object' = file[p] /\ kept' = FALSE
  /\ Goto(p, "unlink")
  /\ UNCHANGED <<bytes, synced, incoming, unsynced, path>> /\ Continues

LinkObject(p) ==
  /\ pc[p] = "link" /\ object = NoFile
  /\ object' = file[p] /\ kept' = FALSE
  /\ Goto(p, "unlink")
  /\ UNCHANGED <<bytes, synced, incoming, unsynced, path>> /\ Continues

(* Faulty variant: a publisher that lost the race, and whose staging name     *)
(* is None, goes on as if it had won.                                         *)
ObjectExistsUnguarded(p) ==
  /\ pc[p] = "link" /\ object # NoFile
  /\ RemoveStaging(file[p])
  /\ file' = [file EXCEPT ![p] = NoFile]
  /\ Goto(p, "unlink")
  /\ UNCHANGED <<bytes, synced, kind, returned, alone>>

ObjectExists(p) ==
  /\ pc[p] = "link" /\ object # NoFile
  /\ RemoveStaging(file[p])
  /\ Goto(p, "lost_sync_incoming")
  /\ UNCHANGED <<bytes, synced>> /\ Continues

(* Faulty variant: a missing staging name is an error. *)
UnlinkStrictly(p) ==
  /\ pc[p] = "unlink"
  /\ RemoveStaging(file[p])
  /\ Goto(p, IF file[p] \in incoming THEN "sync_incoming" ELSE "refused")
  /\ UNCHANGED <<bytes, synced>> /\ Continues

(* The name may be gone: _recover_crash_link of another caller removed it.    *)
UnlinkStaging(p) ==
  /\ pc[p] = "unlink"
  /\ RemoveStaging(file[p])
  /\ Goto(p, "sync_incoming")
  /\ UNCHANGED <<bytes, synced>> /\ Continues

FsyncIncoming(p) ==
  /\ \E step \in {<<"lost_sync_incoming", "open">>,
                  <<"heal_sync_incoming", "heal_sync_leaf">>,
                  <<"sync_incoming", "sync_leaf">>} :
       pc[p] = step[1] /\ Goto(p, step[2])
  /\ SyncIncoming
  /\ UNCHANGED <<bytes, synced>> /\ Continues

FsyncLeaf(p) ==
  /\ \E step \in {<<"heal_sync_leaf", "reopen">>, <<"sync_leaf", "verify">>} :
       pc[p] = step[1] /\ Goto(p, step[2])
  /\ SyncLeaf
  /\ UNCHANGED <<bytes, synced>> /\ Continues
-----------------------------------------------------------------------------
BeginGet(p) ==
  /\ Begins(p, "get_verified")
  /\ Goto(p, IF object = NoFile THEN "missing" ELSE "open")
  /\ file' = [file EXCEPT ![p] = NoFile]
  /\ UNCHANGED <<bytes, synced, directory>>

Sound == object # NoFile /\ Links(object) = 1 /\ bytes[object] = "right"

(* _open_verified_fd with retry_transient_links: an object with two links is  *)
(* looked at again for a while (a stuttering step), then refused.             *)
OpenObject(p) ==
  /\ pc[p] = "open"
  /\ IF Sound THEN Verified(p) ELSE Goto(p, "inspect") /\ UNCHANGED returned
  /\ UNCHANGED <<bytes, synced, directory, kind, file, alone>>

(* Faulty variant: an object with two links is refused without a look into    *)
(* .incoming.                                                                 *)
InspectNothing(p) ==
  /\ pc[p] = "inspect"
  /\ Goto(p, "refused")
  /\ UNCHANGED <<bytes, synced, directory>> /\ Continues

InspectObject(p) ==
  /\ pc[p] = "inspect"
  /\ Goto(p, IF object # NoFile /\ Links(object) = 2 THEN "match" ELSE "refused")
  /\ UNCHANGED <<bytes, synced, directory>> /\ Continues

(* The walk over .incoming: a second name of the same file, with the right    *)
(* bytes, and still two links after the bytes were read.                      *)
MatchStaging(p) ==
  /\ pc[p] = "match"
  /\ Goto(p, IF object \in incoming /\ bytes[object] = "right"
             THEN "heal" ELSE "refused")
  /\ UNCHANGED <<bytes, synced, directory>> /\ Continues

(* Faulty variant: the clean-up removes every staging name it finds. *)
RemoveAllStaging(p) ==
  /\ pc[p] = "heal"
  /\ incoming' = {} /\ unsynced' = unsynced \cup incoming
  /\ Goto(p, IF incoming # {} THEN "heal_sync_incoming" ELSE "refused")
  /\ UNCHANGED <<bytes, synced, object, kept, path>> /\ Continues

RemoveCrashLink(p) ==
  /\ pc[p] = "heal"
  /\ RemoveStaging(object)
  /\ Goto(p, IF object \in incoming THEN "heal_sync_incoming" ELSE "refused")
  /\ UNCHANGED <<bytes, synced>> /\ Continues

Reopen(p) ==
  /\ pc[p] = "reopen"
  /\ IF Sound THEN Verified(p) ELSE Goto(p, "refused") /\ UNCHANGED returned
  /\ UNCHANGED <<bytes, synced, directory, kind, file, alone>>

ReturnPublished(p) ==
  /\ pc[p] = "verify"
  /\ IF Sound
     THEN Goto(p, "returned") /\ returned' = returned \cup {"persist"}
     ELSE Goto(p, "refused") /\ UNCHANGED returned
  /\ UNCHANGED <<bytes, synced, directory, kind, file, alone>>
-----------------------------------------------------------------------------
(* The process of a caller ends; its staging file stays where it is.          *)
Crash(p) ==
  /\ InCall(p)
  /\ Goto(p, "idle")
  /\ UNCHANGED <<bytes, synced, directory>> /\ Continues

(* The file system writes the directories of the digest back.                 *)
WriteBack ==
  /\ path = "new" /\ path' = "lasting"
  /\ UNCHANGED <<bytes, synced, incoming, unsynced, object, kept, pc>>
  /\ Continues

PowerLoss ==
  /\ incoming' \in {{}} \cup {(incoming \ unsynced) \cup present :
                                present \in SUBSET unsynced}
  /\ path' \in IF path = "new" THEN {"none", "lasting"} ELSE {path}
  /\ object' \in IF path' = "none" THEN {NoFile}
                 ELSE {object} \cup (IF kept THEN {} ELSE {NoFile})
  /\ bytes' = [f \in Files |-> IF bytes[f] = "none" \/ f \in synced
                               THEN bytes[f] ELSE "other"]
  /\ unsynced' = {}
  /\ kept' = (object' # NoFile)
  /\ pc' = [p \in Callers |-> "idle"]
  /\ returned' = IF object' = object THEN returned ELSE {}
  /\ UNCHANGED <<synced, kind, file, alone>>

Persist(p) ==
  \/ CreateStaging(p) \/ WriteRight(p) \/ Discard(p) \/ LinkObject(p)
  \/ ObjectExists(p) \/ UnlinkStaging(p) \/ ReturnPublished(p)

Open(p) == BeginGet(p) \/ OpenObject(p)

Recover(p) == InspectObject(p) \/ MatchStaging(p) \/ RemoveCrashLink(p) \/ Reopen(p)

Step(p) == Persist(p) \/ Open(p) \/ Recover(p) \/ FsyncIncoming(p) \/ FsyncLeaf(p)

Next == (\E p \in Callers : Step(p) \/ Crash(p)) \/ WriteBack \/ PowerLoss

Spec == Init /\ [][Next]_vars
-----------------------------------------------------------------------------
TypeOK ==
  /\ bytes \in [Files -> {"none", "right", "other"}]
  /\ synced \in SUBSET Files /\ incoming \in SUBSET Files
  /\ unsynced \in SUBSET Files
  /\ object \in Files \cup {NoFile} /\ kept \in BOOLEAN
  /\ path \in {"none", "new", "lasting"} /\ (object # NoFile => path # "none")
  /\ pc \in [Callers -> Points]
  /\ kind \in [Callers -> {"persist", "get_verified"}]
  /\ file \in [Callers -> Files \cup {NoFile}]
  /\ \A p \in Callers :
       pc[p] \in {"write", "link", "unlink"} =>
         file[p] \in Files /\ path # "none"
  /\ returned \in SUBSET {"persist", "get_verified"}
  /\ alone \in SUBSET Callers

(* The name of a digest leads to its bytes, whatever crashed and whenever the *)
(* power failed: bytes are complete, compared and fsynced before the link.    *)
OnlyVerifiedBytes == object # NoFile => bytes[object] = "right"

(* No publisher replaces an object that is there (os.link, never a rename).   *)
NeverOverwritten == [][object # NoFile => object' \in {object, NoFile}]_vars

(* Once a call of persist has returned, the object survives every crash and   *)
(* loss of power, also when another publisher had linked it, unless the new   *)
(* directories that lead to it are lost with it.                              *)
PublicationLasts ==
  [][("persist" \in returned) =>
       /\ object # NoFile
       /\ object' = object \/ (path = "new" /\ path' = "none")]_vars

(* The publisher whose file became the object is never told that it failed,   *)
(* even if another caller took its staging name for the remains of a crash.   *)
WinnerIsNotRefused ==
  \A p \in Callers : pc[p] = "refused" /\ kind[p] = "persist" => object # file[p]

(* The clean-up after a crash never takes a staging file away from a          *)
(* publisher that has not linked it yet.                                      *)
LiveStagingStays ==
  \A p \in Callers : pc[p] \in {"write", "link"} => file[p] \in incoming

(* A call with the right bytes is refused only when another one ran at the    *)
(* same time: the remains of any crash are healed by the next caller.         *)
AloneNeverRefused == \A p \in alone : pc[p] # "refused"

(* README.md:103-105: the final file and the required parent directories are  *)
(* fsynced before the metadata is written.  Both callers register what a call *)
(* returned, so whatever was returned has to be durable.                      *)
ReturnedIsDurable == returned # {} => object # NoFile /\ kept

(* The same sentence for the parent directories: what persist has returned    *)
(* survives every crash and loss of power, with the path that leads to it.    *)
PublicationSurvives == [][("persist" \in returned) => object' = object]_vars
=============================================================================
