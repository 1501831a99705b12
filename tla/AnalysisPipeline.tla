-------------------------- MODULE AnalysisPipeline --------------------------
(***************************************************************************)
(* The worker threads of devpi-guardian (worker/runtime.py, pipeline.py,   *)
(* preparer.py) between the job table and the verdict store, for the files *)
(* of one release.  One thread runs in each process; each repeats for ever *)
(*                                                                         *)
(*     recover expired leases; run a discovery job; if there was none,     *)
(*     analyse an artifact                                                 *)
(*                                                                         *)
(* The stores appear only with what the threads see of them: DiscoveryQueue*)
(* and VerdictStore give the detail, and show that a completion counts only*)
(* under the newest lease.  A thread holds one claim at a time, so that    *)
(* here the identity of the thread stands for the token of its lease.  The *)
(* clock is replaced by the expiry of leases and the end of retry delays.  *)
(***************************************************************************)
EXTENDS Naturals, FiniteSets

CONSTANTS
    Files,         \* the files of one release
    Sdists,        \* those that are source distributions; the others are wheels
    Uploads,       \* files that may be uploaded instead of found in a listing
    Slow,          \* files whose analysis may take longer than a lease
    Lagging,       \* files whose download may take longer than a lease
    Threads,
    Nobody,
    MaxAttempts,   \* runs of a discovery job
    MaxFaults      \* bound: interruptions, and leases that end while at work

ASSUME PipelineAssumption ==
    /\ IsFiniteSet(Files)
    /\ Sdists \subseteq Files /\ Uploads \subseteq Files
    /\ Slow \subseteq Files /\ Lagging \subseteq Files
    /\ Nobody \notin Files \cup Threads
    /\ MaxAttempts \in Nat \ {0} /\ MaxFaults \in Nat

VARIABLES
    job,        \* state of the discovery job of each file
    attempts,   \* attempt_count of each job
    consumer,   \* the thread whose lease a job in processing carries
    overdue,    \* jobs whose lease has expired
    before,     \* pairs of pending jobs: the first has the smaller available_at
    item,       \* state of the artifact of each file
    rank,       \* order of the artifacts by discovered_at
    analyst,    \* the thread whose lease an artifact in scanning carries
    lapsed,     \* artifacts whose lease has expired
    pc,         \* where each thread is
    claim,      \* the file each thread works on
    bundle,     \* the counterpart each thread has prepared, at most one
    compared,   \* pairs that an analysis with a recorded verdict compared
    faults

jobVars == <<job, attempts, consumer, overdue, before>>
itemVars == <<item, rank, analyst, lapsed, compared>>
threadVars == <<pc, claim, bundle>>
vars == <<jobVars, itemVars, threadVars, faults>>

JobStates == {"none", "pending", "delayed", "processing", "completed", "failed"}
ItemStates == {"absent", "discovered", "scanning", "verdict", "error"}
Steps == {"recover_jobs", "recover_items", "discover", "fetch", "complete",
          "analyse", "prepare", "report"}

Registered == {f \in Files : item[f] # "absent"}
JobEnded(f) == job[f] \in {"completed", "failed"}
Settled(f) == item[f] \in {"verdict", "error"}

Init ==
    /\ job = [f \in Files |-> "none"]
    /\ attempts = [f \in Files |-> 0]
    /\ consumer = [f \in Files |-> Nobody]
    /\ overdue = {} /\ before = {}
    /\ item = [f \in Files |-> "absent"]
    /\ rank = [f \in Files |-> 0]
    /\ analyst = [f \in Files |-> Nobody]
    /\ lapsed = {} /\ compared = {}
    /\ pc = [t \in Threads |-> "recover_jobs"]
    /\ claim = [t \in Threads |-> Nobody]
    /\ bundle = [t \in Threads |-> {}]
    /\ faults = 0

-----------------------------------------------------------------------------
(* What comes from outside: listings, uploads and the passage of time.     *)

\* Jobs that become available now come after those that wait already; jobs of one
\* moment are in no order.
Queue(jobs) ==
    before' = before \cup ({g \in Files : job[g] = "pending"} \X jobs)

\* A listing queues every link without an artifact and without a job at once.
List ==
    LET new == {f \in Files \ Registered : job[f] = "none"} IN
    /\ new # {}
    /\ job' = [f \in Files |-> IF f \in new THEN "pending" ELSE job[f]]
    /\ Queue(new)
    /\ UNCHANGED <<attempts, consumer, overdue, itemVars, threadVars, faults>>

\* discover_artifact: an artifact that is known keeps its state.
Register(f) ==
    IF f \in Registered THEN UNCHANGED itemVars
    ELSE /\ item' = [item EXCEPT ![f] = "discovered"]
         /\ rank' = [rank EXCEPT ![f] = Cardinality(Registered)]
         /\ UNCHANGED <<analyst, lapsed, compared>>

Upload(f) ==
    /\ f \in Uploads \ Registered
    /\ Register(f)
    /\ UNCHANGED <<jobVars, threadVars, faults>>

DelayEnds(f) ==
    /\ job[f] = "delayed"
    /\ job' = [job EXCEPT ![f] = "pending"]
    /\ Queue({f})
    /\ UNCHANGED <<attempts, consumer, overdue, itemVars, threadVars, faults>>

WorksOnJob(t, f) == claim[t] = f /\ pc[t] \in {"fetch", "complete"}
WorksOnItem(t, f) == claim[t] = f /\ pc[t] \in {"prepare", "report"}

OutOfTurn == faults < MaxFaults /\ faults' = faults + 1

\* Leases of five minutes that are never renewed.  A download or an analysis that
\* may be slow can outlive its lease each time it is tried; any other one, only by a
\* fault.
JobLeaseEnds(f) ==
    /\ job[f] = "processing" /\ f \notin overdue
    /\ overdue' = overdue \cup {f}
    /\ IF WorksOnJob(consumer[f], f) /\ f \notin Lagging
       THEN OutOfTurn ELSE UNCHANGED faults
    /\ UNCHANGED <<job, attempts, consumer, before, itemVars, threadVars>>

ItemLeaseEnds(f) ==
    /\ item[f] = "scanning" /\ f \notin lapsed
    /\ lapsed' = lapsed \cup {f}
    /\ IF WorksOnItem(analyst[f], f) /\ f \notin Slow
       THEN OutOfTurn ELSE UNCHANGED faults
    /\ UNCHANGED <<jobVars, item, rank, analyst, compared, threadVars>>

-----------------------------------------------------------------------------
(* One cycle of a thread.                                                  *)

Goto(t, step) == pc' = [pc EXCEPT ![t] = step]

\* The end of a cycle, also of one that an exception ended.
EndCycle(t) ==
    /\ Goto(t, "recover_jobs")
    /\ claim' = [claim EXCEPT ![t] = Nobody]
    /\ bundle' = [bundle EXCEPT ![t] = {}]

RecoverJobs(t) ==
    /\ pc[t] = "recover_jobs"
    /\ Goto(t, "recover_items")
    /\ job' = [f \in Files |-> IF f \in overdue THEN "pending" ELSE job[f]]
    /\ consumer' = [f \in Files |-> IF f \in overdue THEN Nobody ELSE consumer[f]]
    /\ overdue' = {}
    /\ Queue(overdue)
    /\ UNCHANGED <<attempts, itemVars, claim, bundle, faults>>

\* Faulty variant: an artifact whose lease expired stays with its holder.
RecoverItemsNever(t) ==
    /\ pc[t] = "recover_items"
    /\ Goto(t, "discover")
    /\ UNCHANGED <<jobVars, itemVars, claim, bundle, faults>>

RecoverItems(t) ==
    /\ pc[t] = "recover_items"
    /\ Goto(t, "discover")
    /\ item' = [f \in Files |-> IF f \in lapsed THEN "discovered" ELSE item[f]]
    /\ analyst' = [f \in Files |-> IF f \in lapsed THEN Nobody ELSE analyst[f]]
    /\ lapsed' = {}
    /\ UNCHANGED <<jobVars, rank, compared, claim, bundle, faults>>

\* Faulty variant: any pending job is taken.
IsWaiting(f) == job[f] = "pending"

\* The job that claim_next takes, ordered by available_at.
IsFirst(f) == job[f] = "pending" /\ \A g \in Files : <<g, f>> \notin before

ClaimJob(t) ==
    /\ pc[t] = "discover"
    /\ \E f \in Files :
         /\ IsFirst(f)
         /\ before' = {pair \in before : pair[1] # f}
         /\ job' = [job EXCEPT ![f] = "processing"]
         /\ attempts' = [attempts EXCEPT ![f] = IF @ < MaxAttempts THEN @ + 1 ELSE @]
         /\ consumer' = [consumer EXCEPT ![f] = t]
         /\ claim' = [claim EXCEPT ![t] = f]
    /\ Goto(t, "fetch")
    /\ UNCHANGED <<overdue, itemVars, bundle, faults>>

NoJob(t) ==
    /\ pc[t] = "discover"
    /\ \A f \in Files : job[f] # "pending"
    /\ Goto(t, "analyse")
    /\ UNCHANGED <<jobVars, itemVars, claim, bundle, faults>>

\* Faulty variant: the lease columns are not cleared.
ReleaseKeepingLease(t, result) ==
    /\ job' = [job EXCEPT ![claim[t]] = result]
    /\ UNCHANGED <<attempts, consumer, overdue, before>>

\* complete, fail and retry raise, and change nothing, unless the lease is in force.
Release(t, result) ==
    LET f == claim[t] IN
    IF job[f] = "processing" /\ consumer[f] = t /\ f \notin overdue
    THEN /\ job' = [job EXCEPT ![f] = result]
         /\ consumer' = [consumer EXCEPT ![f] = Nobody]
         /\ UNCHANGED <<attempts, overdue, before>>
    ELSE UNCHANGED jobVars

Fetched(t) ==
    /\ pc[t] = "fetch"
    /\ Register(claim[t])
    /\ Goto(t, "complete")
    /\ UNCHANGED <<jobVars, claim, bundle, faults>>

\* Bytes with another digest, a link that is refused.
FetchRefused(t) ==
    /\ pc[t] = "fetch"
    /\ Release(t, "failed")
    /\ EndCycle(t)
    /\ UNCHANGED <<itemVars, faults>>

\* A transient failure.
FetchFailed(t) ==
    /\ pc[t] = "fetch"
    /\ Release(t, IF attempts[claim[t]] < MaxAttempts THEN "delayed" ELSE "failed")
    /\ EndCycle(t)
    /\ UNCHANGED <<itemVars, faults>>

CompleteJob(t) ==
    /\ pc[t] = "complete"
    /\ Release(t, "completed")
    /\ EndCycle(t)
    /\ UNCHANGED <<itemVars, faults>>

\* The artifact that claim_next takes.
IsNext(f) ==
    /\ item[f] = "discovered"
    /\ \A g \in Files : item[g] = "discovered" => rank[f] <= rank[g]

ClaimItem(t) ==
    /\ pc[t] = "analyse"
    /\ \E f \in Files :
         /\ IsNext(f)
         /\ item' = [item EXCEPT ![f] = "scanning"]
         /\ analyst' = [analyst EXCEPT ![f] = t]
         /\ claim' = [claim EXCEPT ![t] = f]
    /\ Goto(t, "prepare")
    /\ UNCHANGED <<jobVars, rank, lapsed, compared, bundle, faults>>

NoItem(t) ==
    /\ pc[t] = "analyse"
    /\ \A f \in Files : item[f] # "discovered"
    /\ EndCycle(t)
    /\ UNCHANGED <<jobVars, itemVars, faults>>

\* Faulty variant: only files of the release that have a verdict are candidates.
SettledCounterparts(f) ==
    {g \in Files : item[g] = "verdict" /\ (g \in Sdists) # (f \in Sdists)}

\* Files of the other kind that have an artifact; all of them are in the quarantine.
Counterparts(f) == {g \in Registered : (g \in Sdists) # (f \in Sdists)}

\* The walk over the candidates ends at the first file of the other kind.
Prepare(t) ==
    /\ pc[t] = "prepare"
    /\ IF Counterparts(claim[t]) = {} THEN UNCHANGED bundle
       ELSE \E g \in Counterparts(claim[t]) : bundle' = [bundle EXCEPT ![t] = {g}]
    /\ Goto(t, "report")
    /\ UNCHANGED <<jobVars, itemVars, claim, faults>>

HoldsItem(t) ==
    /\ item[claim[t]] = "scanning"
    /\ analyst[claim[t]] = t
    /\ claim[t] \notin lapsed

\* record_verdict, or mark_analysis_error after an exception of the analysis.  If
\* the lease is not in force both raise and the artifact stays as it is.
Report(t) ==
    /\ pc[t] = "report"
    /\ IF HoldsItem(t)
       THEN /\ \E result \in {"verdict", "error"} :
                 /\ item' = [item EXCEPT ![claim[t]] = result]
                 /\ compared' = IF result = "error" THEN compared
                                ELSE compared \cup {{claim[t], g} : g \in bundle[t]}
            /\ analyst' = [analyst EXCEPT ![claim[t]] = Nobody]
            /\ UNCHANGED <<rank, lapsed>>
       ELSE UNCHANGED itemVars
    /\ EndCycle(t)
    /\ UNCHANGED <<jobVars, faults>>

\* A store fails or the process ends and is started again: the claim is forgotten.
Interrupted(t) ==
    /\ OutOfTurn
    /\ EndCycle(t)
    /\ UNCHANGED <<jobVars, itemVars>>

Cycle(t) ==
    \/ RecoverJobs(t) \/ RecoverItems(t)
    \/ ClaimJob(t) \/ NoJob(t)
    \/ Fetched(t) \/ FetchRefused(t) \/ FetchFailed(t) \/ CompleteJob(t)
    \/ ClaimItem(t) \/ NoItem(t) \/ Prepare(t) \/ Report(t)

Next ==
    \/ List
    \/ \E f \in Files :
         Upload(f) \/ DelayEnds(f) \/ JobLeaseEnds(f) \/ ItemLeaseEnds(f)
    \/ \E t \in Threads : Cycle(t) \/ Interrupted(t)

\* Threads keep running, delays end, and the lease of a claim that nobody works on,
\* or whose work takes too long, ends.
Fairness ==
    /\ \A t \in Threads : WF_vars(Cycle(t))
    /\ \A f \in Files :
         /\ WF_vars(DelayEnds(f))
         /\ WF_vars(JobLeaseEnds(f) /\ faults' = faults)
         /\ WF_vars(ItemLeaseEnds(f) /\ faults' = faults)

Spec == Init /\ [][Next]_vars /\ Fairness

-----------------------------------------------------------------------------
TypeOK ==
    /\ job \in [Files -> JobStates]
    /\ attempts \in [Files -> 0..MaxAttempts]
    /\ consumer \in [Files -> Threads \cup {Nobody}]
    /\ \A f \in Files : job[f] = "processing" <=> consumer[f] # Nobody
    /\ item \in [Files -> ItemStates]
    /\ rank \in [Files -> 0..Cardinality(Files)]
    /\ analyst \in [Files -> Threads \cup {Nobody}]
    /\ \A f \in Files : item[f] = "scanning" <=> analyst[f] # Nobody
    /\ overdue \subseteq {f \in Files : job[f] = "processing"}
    /\ before \subseteq Files \X Files
    /\ lapsed \subseteq {f \in Files : item[f] = "scanning"}
    /\ pc \in [Threads -> Steps]
    /\ claim \in [Threads -> Files \cup {Nobody}]
    /\ bundle \in [Threads -> SUBSET Files]
    /\ compared \subseteq SUBSET Files
    /\ faults \in 0..MaxFaults

\* When a source distribution and a wheel of a release both have a verdict, an
\* analysis compared one of them with a counterpart: of two analyses that overlap,
\* or of which one was done before the other file arrived, the one that prepares
\* last finds the other file.  (Which of several wheels is compared is left open:
\* prepare stops at the first.)
ReleaseIsCompared ==
    \A s \in Sdists, w \in Files \ Sdists :
      item[s] = "verdict" /\ item[w] = "verdict" =>
        \E pair \in compared : s \in pair \/ w \in pair

\* Every discovery job ends, with the artifact registered or not, whatever threads
\* are interrupted on the way, also behind jobs that are repeated without end because
\* their downloads always outlive the lease.
JobsEnd == \A f \in Files \ Lagging : job[f] = "pending" ~> JobEnded(f)

\* What may keep an artifact waiting for ever: an older one whose analysis always
\* outlives its lease is claimed, recovered and claimed again before it; and a job
\* whose download does is there to be run whenever a thread might analyse.
HeldUp(f) ==
    \/ \E s \in Slow : s \in Registered /\ rank[s] < rank[f] /\ ~Settled(s)
    \/ \E g \in Lagging : job[g] # "none" /\ ~JobEnded(g)

\* Every artifact gets a verdict or an error, unless it is held up for ever by a
\* download or an analysis that is repeated without end.
ArtifactsSettle ==
    \A f \in Files \ Slow :
      (item[f] = "discovered" ~> Settled(f)) \/ <>[]HeldUp(f)

\* WorkerCoordinator: "Drain discovery first so same-release files reach F4 before
\* analysis."  No analysis of a release begins before its jobs have ended.
DrainedBeforeAnalysis ==
    [][\A t \in Threads :
         ClaimItem(t) => \A f \in Files : job[f] = "none" \/ JobEnded(f)]_vars
=============================================================================
