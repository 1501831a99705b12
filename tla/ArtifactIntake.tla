---------------------------- MODULE ArtifactIntake ----------------------------
(***************************************************************************)
(* How artifacts enter the system: the simple index queues a discovery job *)
(* for a link whose artifact is unknown (plugin.py), the discovery         *)
(* consumer downloads it (worker/discovery_consumer.py), an upload is      *)
(* captured directly (worker/upload.py), and both publish the bytes in the *)
(* quarantine before they register the artifact in the store.              *)
(*                                                                         *)
(* Three stores without a common transaction are involved: the job table,  *)
(* the quarantine directory and the verdict database.  Of the quarantine   *)
(* only the set of published digests is kept, of the database only the set *)
(* of registered ones.  Every step of run_once is an action of its own, a  *)
(* process may stop between any two of them, and a slow consumer may       *)
(* continue after its lease went to another one.                           *)
(***************************************************************************)
EXTENDS DiscoveryQueue

CONSTANTS
    Digest,    \* digests of the artifacts
    Sha        \* [Job -> Digest]  the digest that a link names

ASSUME IntakeAssumption == Sha \in [Job -> Digest]

VARIABLES
    pc,          \* where each consumer is in run_once
    held,        \* the claim each consumer works on
    seen,        \* links a simple index request found without an artifact
    uploading,   \* digests of upload captures between persist and registration
    published,   \* digests with a verified object in the quarantine
    registered   \* digests with an artifact row and a release mapping

intakeVars == <<pc, held, seen, uploading, published, registered>>
vars == <<queueVars, intakeVars>>

NoClaim == [job |-> 0, owner |-> Nobody, attempt |-> 0, expires |-> 0, token |-> 0]

Steps == {"idle", "fetch", "register", "complete", "fail", "retry"}

IntakeTypeOK ==
    /\ TypeOK
    /\ pc \in [Consumer -> Steps]
    /\ held \in [Consumer -> claims \cup {NoClaim}]
    /\ \A w \in Consumer : pc[w] = "idle" <=> held[w] = NoClaim
    /\ seen \subseteq Job
    /\ uploading \subseteq Digest
    /\ published \subseteq Digest
    /\ registered \subseteq Digest

IntakeInit ==
    /\ Init
    /\ pc = [w \in Consumer |-> "idle"]
    /\ held = [w \in Consumer |-> NoClaim]
    /\ seen = {}
    /\ uploading = {}
    /\ published = {}
    /\ registered = {}

Goto(w, step) == pc' = [pc EXCEPT ![w] = step]

\* Faulty variant: the next run_once starts with the claim of the last one.
DoneKeepingClaim(w) == Goto(w, "idle") /\ UNCHANGED held

Done(w) ==
    /\ Goto(w, "idle")
    /\ held' = [held EXCEPT ![w] = NoClaim]

Target(w) == Sha[held[w].job]

-----------------------------------------------------------------------------
(* The simple index: the decisions are read first, and the jobs of the     *)
(* links whose source is MISSING are queued afterwards.                    *)

ReadDecisions(links) ==
    /\ seen = {}
    /\ seen' = {j \in links : Sha[j] \notin registered}
    /\ UNCHANGED <<queueVars, pc, held, uploading, published, registered>>

QueueMissing ==
    /\ seen # {}
    /\ seen' = {}
    /\ \/ DiscoverMany(seen, clock)
       \/ QueueFull(seen) /\ UNCHANGED queueVars   \* the request ends in a 503
    /\ UNCHANGED <<pc, held, uploading, published, registered>>

-----------------------------------------------------------------------------
(* DiscoveryConsumer.run_once. *)

Claim(w, until) ==
    /\ pc[w] = "idle"
    /\ ClaimNext(w, until)
    /\ IF issued' = issued
       THEN UNCHANGED <<pc, held>>
       ELSE /\ Goto(w, "fetch")
            /\ held' = [held EXCEPT ![w] =
                           CHOOSE c \in claims' : c.token = issued']
    /\ UNCHANGED <<seen, uploading, published, registered>>

\* The loop recovers expired leases before every run_once.
Recover(w) ==
    /\ pc[w] = "idle"
    /\ RecoverExpiredClaims
    /\ UNCHANGED intakeVars

\* Faulty variant: an object that is already in the quarantine is taken for one that
\* is registered.
FetchAndComplete(w) ==
    /\ pc[w] = "fetch"
    /\ published' = published \cup {Target(w)}
    /\ Goto(w, IF Target(w) \in published THEN "complete" ELSE "register")
    /\ UNCHANGED <<queueVars, held, seen, uploading, registered>>

\* get_verified finds the object or persist publishes it.
Fetch(w) ==
    /\ pc[w] = "fetch"
    /\ published' = published \cup {Target(w)}
    /\ Goto(w, "register")
    /\ UNCHANGED <<queueVars, held, seen, uploading, registered>>

Register(w) ==
    /\ pc[w] = "register"
    /\ registered' = registered \cup {Target(w)}
    /\ Goto(w, "complete")
    /\ UNCHANGED <<queueVars, held, seen, uploading, published>>

\* TransitionConflict, QuarantineError and ValueError end the job; any other
\* exception is tried again.
Refused(w) ==
    /\ pc[w] \in {"fetch", "register"}
    /\ Goto(w, "fail")
    /\ UNCHANGED <<queueVars, held, seen, uploading, published, registered>>

Interrupted(w) ==
    /\ pc[w] \in {"fetch", "register"}
    /\ Goto(w, "retry")
    /\ UNCHANGED <<queueVars, held, seen, uploading, published, registered>>

\* complete, fail and retry raise when the lease is no longer held; the polling
\* thread swallows the exception and starts over.
EndClaim(w) ==
    /\ \/ /\ pc[w] = "complete" /\ Finish(held[w], "COMPLETED")
       \/ /\ pc[w] = "fail" /\ Finish(held[w], "FAILED")
       \/ /\ pc[w] = "retry" /\ Retry(held[w])
       \/ /\ pc[w] \in {"complete", "fail", "retry"}
          /\ ~HoldsLease(held[w])
          /\ UNCHANGED queueVars
    /\ Done(w)
    /\ UNCHANGED <<seen, uploading, published, registered>>

-----------------------------------------------------------------------------
(* UploadCapture.capture runs in the upload request. *)

\* Faulty variant: the discovery mapping is written before the object is published.
CaptureRegisteringFirst(d) ==
    /\ d \notin uploading
    /\ uploading' = uploading \cup {d}
    /\ registered' = registered \cup {d}
    /\ UNCHANGED <<queueVars, pc, held, seen, published>>

CapturePersist(d) ==
    /\ d \notin uploading
    /\ uploading' = uploading \cup {d}
    /\ published' = published \cup {d}
    /\ UNCHANGED <<queueVars, pc, held, seen, registered>>

CaptureRegister(d) ==
    /\ d \in uploading
    /\ uploading' = uploading \ {d}
    /\ registered' = registered \cup {d}
    /\ UNCHANGED <<queueVars, pc, held, seen, published>>

-----------------------------------------------------------------------------
\* The process stops: what is in memory is gone, the three stores stay.
Crash ==
    /\ pc' = [w \in Consumer |-> "idle"]
    /\ held' = [w \in Consumer |-> NoClaim]
    /\ seen' = {}
    /\ uploading' = {}
    /\ scrubCursor' = 0
    /\ UNCHANGED <<clock, state, attempts, availableAt, createdAt, lease, damaged,
                   claims, issued, settler, lapsed, published, registered>>

IntakeNext ==
    \/ Tick /\ UNCHANGED intakeVars
    \/ Crash
    \/ \E links \in SUBSET Job : ReadDecisions(links)
    \/ QueueMissing
    \/ \E w \in Consumer :
         \/ \E until \in 1..MaxTime : Claim(w, until)
         \/ Recover(w)
         \/ Fetch(w)
         \/ Register(w)
         \/ Refused(w)
         \/ Interrupted(w)
         \/ EndClaim(w)
    \/ \E d \in Digest : CapturePersist(d) \/ CaptureRegister(d)

IntakeSpec == IntakeInit /\ [][IntakeNext]_vars

-----------------------------------------------------------------------------
(* What makes the intake correct. *)

\* A completed job has left its artifact in the verdict database: a job is never
\* marked done for a registration that a crash, a conflict or a lost lease
\* prevented.  (A completed job is never run again.)
CompletedIsRegistered ==
    \A j \in Job : state[j] = "COMPLETED" => Sha[j] \in registered

\* Publish before discover: an artifact that the analysis worker can claim has its
\* bytes in the quarantine, whichever of the two entrances it took.
RegisteredIsPublished == registered \subseteq published

\* w was given the job last, and the job ends for what w met in run_once.
EndedBy(w, j) ==
    /\ held[w] # NoClaim /\ held[w].job = j
    /\ \A c \in claims : c.job = j => c.token <= held[w].token
    /\ \/ state'[j] = "COMPLETED" /\ pc[w] = "complete"
       \/ state'[j] = "FAILED" /\ pc[w] = "fail"
       \/ state'[j] = "FAILED" /\ pc[w] = "retry" /\ attempts[j] >= MaxAttempts

\* A job ends by the hand of the consumer that was given it last, and for what that
\* consumer met: COMPLETED after the registration, FAILED after a refusal or after
\* an interruption of its last attempt.  A consumer that outlived its lease never
\* decides the outcome for a successor that is still at work, and no job is given
\* up early.
EndedByItsLastConsumer ==
    [][\A j \in Job : state[j] \notin TerminalStates /\ state'[j] \in TerminalStates =>
          \E w \in Consumer : EndedBy(w, j)]_vars

==============================================================================
