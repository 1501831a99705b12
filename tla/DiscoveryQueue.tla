---------------------------- MODULE DiscoveryQueue ----------------------------
(***************************************************************************)
(* FileDiscoverySink (worker/discovery.py): the durable table of discovery *)
(* jobs between the simple index, which sees a link that has no artifact   *)
(* yet, and the consumer that downloads it.                                *)
(*                                                                         *)
(* Every operation is one BEGIN IMMEDIATE transaction, so an operation is  *)
(* one atomic action; all but discover_many read the clock after taking    *)
(* the write lock.  An operation that raises rolls back and changes        *)
(* nothing.  "claims" keeps every DiscoveryClaim ever returned, so a late, *)
(* a repeated or a long forgotten completion may arrive at any time.       *)
(*                                                                         *)
(* A row that fails validation (candidate_json, attempt_count, timestamps) *)
(* can only come from outside the program: Damage models it for the jobs   *)
(* of Damageable and leaves the key, the order and the lease readable.     *)
(***************************************************************************)
EXTENDS Naturals, FiniteSets

CONSTANTS
    Job,          \* job ids, in the order of job_id
    Consumer,     \* worker ids
    Nobody,       \* owner of a cleared lease
    Damageable,   \* jobs whose row may be damaged from outside
    MaxActive,    \* max_active_jobs
    MaxAttempts,  \* max_attempts of retry
    RetryDelay,   \* delay of retry
    ScrubBatch,   \* _SCRUB_BATCH_SIZE
    ClaimBatch,   \* _CLAIM_BATCH_SIZE
    MaxCorrupt,   \* _MAX_CLAIM_CORRUPT_ROWS
    MaxTime,      \* bound on the clock and on lease deadlines
    MaxClaims     \* bound on the number of claims issued

ASSUME QueueAssumption ==
    /\ Job \subseteq Nat /\ IsFiniteSet(Job)
    /\ Nobody \notin Consumer
    /\ Damageable \subseteq Job
    /\ {MaxActive, MaxAttempts, ScrubBatch, ClaimBatch, MaxCorrupt} \subseteq Nat \ {0}
    /\ {RetryDelay, MaxTime, MaxClaims} \subseteq Nat

VARIABLES
    clock,        \* the UTC clock
    state,        \* discovery_jobs.state; "ABSENT" when there is no row
    attempts,     \* attempt_count
    availableAt,  \* available_at
    createdAt,    \* created_at
    lease,        \* lease_owner, lease_expires_at, lease_token
    damaged,      \* jobs whose row fails validation
    scrubCursor,  \* _scrub_cursor of the process; 0 when None
    claims,       \* every DiscoveryClaim returned so far
    issued,       \* number of leases granted
    settler,      \* token of the claim that ended the job (history)
    lapsed        \* leases that expired with all attempts used up (history)

queueVars == <<clock, state, attempts, availableAt, createdAt, lease, damaged,
               scrubCursor, claims, issued, settler, lapsed>>

-----------------------------------------------------------------------------
TerminalStates == {"COMPLETED", "FAILED"}
ActiveStates == {"PENDING", "PROCESSING"}
JobStates == TerminalStates \cup ActiveStates \cup {"ABSENT"}

NoLease == [owner |-> Nobody, expires |-> 0, token |-> 0]
Leases == [owner : Consumer \cup {Nobody}, expires : Nat, token : Nat]
Claims == [job : Job, owner : Consumer, attempt : Nat, expires : Nat, token : Nat]

TypeOK ==
    /\ clock \in Nat
    /\ state \in [Job -> JobStates]
    /\ attempts \in [Job -> Nat]
    /\ availableAt \in [Job -> Nat]
    /\ createdAt \in [Job -> Nat]
    /\ lease \in [Job -> Leases]
    /\ \A j \in Job : state[j] = "PROCESSING" <=> lease[j] # NoLease  \* the CHECK
    /\ damaged \subseteq Damageable
    /\ scrubCursor \in Nat
    /\ claims \subseteq Claims
    /\ issued \in Nat
    /\ settler \in [Job -> Nat]
    /\ lapsed \in [Job -> Nat]

Init ==
    /\ clock = 0
    /\ state = [j \in Job |-> "ABSENT"]
    /\ attempts = [j \in Job |-> 0]
    /\ availableAt = [j \in Job |-> 0]
    /\ createdAt = [j \in Job |-> 0]
    /\ lease = [j \in Job |-> NoLease]
    /\ damaged = {}
    /\ scrubCursor = 0
    /\ claims = {}
    /\ issued = 0
    /\ settler = [j \in Job |-> 0]
    /\ lapsed = [j \in Job |-> 0]

Tick ==
    /\ clock < MaxTime
    /\ clock' = clock + 1
    /\ UNCHANGED <<state, attempts, availableAt, createdAt, lease, damaged,
                   scrubCursor, claims, issued, settler, lapsed>>

Damage(j) ==
    /\ j \in Damageable \ damaged
    /\ state[j] \in ActiveStates
    /\ damaged' = damaged \cup {j}
    /\ UNCHANGED <<clock, state, attempts, availableAt, createdAt, lease,
                   scrubCursor, claims, issued, settler, lapsed>>

\* The in-memory cursor is lost with the process.
Restart ==
    /\ scrubCursor # 0
    /\ scrubCursor' = 0
    /\ UNCHANGED <<clock, state, attempts, availableAt, createdAt, lease, damaged,
                   claims, issued, settler, lapsed>>

-----------------------------------------------------------------------------
Active == {j \in Job : state[j] \in ActiveStates}
Pending == {j \in Job : state[j] = "PENDING"}
Processing == {j \in Job : state[j] = "PROCESSING"}

\* Inserts the new jobs of the batch as PENDING; "at" was read before the
\* transaction began.
Insert(new, at) ==
    /\ state' = [j \in Job |-> IF j \in new THEN "PENDING" ELSE state[j]]
    /\ availableAt' = [j \in Job |-> IF j \in new THEN at ELSE availableAt[j]]
    /\ createdAt' = [j \in Job |-> IF j \in new THEN at ELSE createdAt[j]]
    /\ UNCHANGED <<clock, attempts, lease, damaged, scrubCursor, claims, issued,
                   settler, lapsed>>

Unknown(batch) == {j \in batch : state[j] = "ABSENT"}

QueueFull(batch) == Cardinality(Active) + Cardinality(Unknown(batch)) > MaxActive

\* Faulty variant: jobs that are being processed do not count.
DiscoverCountingPending(batch, at) ==
    /\ Cardinality(Pending) + Cardinality(Unknown(batch)) <= MaxActive
    /\ Insert(Unknown(batch), at)

\* Faulty variant: INSERT OR REPLACE queues a finished job again.
DiscoverReplacing(batch, at) ==
    LET new == batch \ Active IN
    /\ Cardinality(Active) + Cardinality(new) <= MaxActive
    /\ Insert(new, at)

\* A job that exists, in whatever state, is skipped.  One new job too many raises
\* DiscoveryQueueFull and the whole batch is rolled back.
DiscoverMany(batch, at) ==
    /\ ~QueueFull(batch)
    /\ Insert(Unknown(batch), at)

-----------------------------------------------------------------------------
(* claim_next: scrub one batch of pending rows, then walk the ready rows.  *)

\* The first n jobs of S in the order of R.
First(n, S, R(_, _)) ==
    {j \in S : Cardinality({i \in S : R(i, j)}) < n}

ById(i, j) == i < j

\* ORDER BY available_at, created_at, job_id
ByAge(i, j) ==
    \/ availableAt[i] < availableAt[j]
    \/ /\ availableAt[i] = availableAt[j]
       /\ \/ createdAt[i] < createdAt[j]
          \/ createdAt[i] = createdAt[j] /\ i < j

Scrubbed == First(ScrubBatch, {j \in Pending : j > scrubCursor}, ById)

CursorAfterScrub ==
    IF Scrubbed = {} THEN 0
    ELSE CHOOSE j \in Scrubbed : \A i \in Scrubbed : i <= j

ReadyRows ==
    First(ClaimBatch,
          {j \in Pending \ (Scrubbed \cap damaged) : availableAt[j] <= clock},
          ByAge)

\* The walk ends with the row that is the MaxCorrupt-th invalid one.
Examined ==
    {j \in ReadyRows :
        Cardinality({i \in ReadyRows \cap damaged : ByAge(i, j)}) < MaxCorrupt}

\* Faulty variant: the walk passes over an invalid row and leaves it pending.
RejectedByScrubOnly == Scrubbed \cap damaged

Rejected == (Scrubbed \cup Examined) \cap damaged

\* The oldest valid row of the walk: one job or none.
Claimable == First(1, Examined \ damaged, ByAge)

\* Returns a claim on the job of Claimable, or None when there is none; the invalid
\* rows that the call met are FAILED either way.
ClaimNext(w, until) ==
    LET won == Claimable
        dead == Rejected
    IN
    /\ until > clock
    /\ issued < MaxClaims
    /\ state' = [j \in Job |-> IF j \in won THEN "PROCESSING"
                               ELSE IF j \in dead THEN "FAILED" ELSE state[j]]
    /\ attempts' = [j \in Job |-> IF j \in won THEN attempts[j] + 1 ELSE attempts[j]]
    /\ lease' = [j \in Job |->
                    IF j \in won
                    THEN [owner |-> w, expires |-> until, token |-> issued + 1]
                    ELSE lease[j]]
    /\ claims' = claims \cup
         {[job |-> j, owner |-> w, attempt |-> attempts[j] + 1, expires |-> until,
           token |-> issued + 1] : j \in won}
    /\ issued' = IF won = {} THEN issued ELSE issued + 1
    /\ scrubCursor' = CursorAfterScrub
    /\ UNCHANGED <<clock, availableAt, createdAt, damaged, settler, lapsed>>

\* An expired lease is noted when it was that of the last attempt or a later one.
LapsedAfter(j) == IF attempts[j] >= MaxAttempts THEN lapsed[j] + 1 ELSE lapsed[j]

\* Faulty variant: the row that is given up keeps its lease columns.
RecoverKeepingLease ==
    LET dead == Processing \cap damaged
        over == {j \in Processing \ damaged : lease[j].expires <= clock}
    IN
    /\ dead \cup over # {}
    /\ state' = [j \in Job |-> IF j \in dead THEN "FAILED"
                               ELSE IF j \in over THEN "PENDING" ELSE state[j]]
    /\ availableAt' = [j \in Job |-> IF j \in over THEN clock ELSE availableAt[j]]
    /\ lease' = [j \in Job |-> IF j \in over THEN NoLease ELSE lease[j]]
    /\ lapsed' = [j \in Job |-> IF j \in over THEN LapsedAfter(j) ELSE lapsed[j]]
    /\ UNCHANGED <<clock, attempts, createdAt, damaged, scrubCursor, claims,
                   issued, settler>>

\* Expired leases go back to PENDING, whatever attempt_count says; an invalid row
\* fails even while its lease runs.
RecoverExpiredClaims ==
    LET dead == Processing \cap damaged
        over == {j \in Processing \ damaged : lease[j].expires <= clock}
    IN
    /\ dead \cup over # {}
    /\ state' = [j \in Job |-> IF j \in dead THEN "FAILED"
                               ELSE IF j \in over THEN "PENDING" ELSE state[j]]
    /\ availableAt' = [j \in Job |-> IF j \in over THEN clock ELSE availableAt[j]]
    /\ lease' = [j \in Job |-> IF j \in dead \cup over THEN NoLease ELSE lease[j]]
    /\ lapsed' = [j \in Job |-> IF j \in over THEN LapsedAfter(j) ELSE lapsed[j]]
    /\ UNCHANGED <<clock, attempts, createdAt, damaged, scrubCursor, claims,
                   issued, settler>>

-----------------------------------------------------------------------------
(* The end of a claim. *)

\* Faulty variant: the fence forgets the lease token.
HoldsLeaseByOwner(c) ==
    /\ c.expires > clock
    /\ state[c.job] = "PROCESSING"
    /\ lease[c.job].owner = c.owner
    /\ lease[c.job].expires = c.expires

\* Faulty variant: the completion of any claim on the job is taken while the job is
\* being processed.
HoldsLeaseByState(c) == state[c.job] = "PROCESSING"

HoldsLease(c) ==
    /\ c.expires > clock
    /\ state[c.job] = "PROCESSING"
    /\ lease[c.job] = [owner |-> c.owner, expires |-> c.expires, token |-> c.token]

\* complete and fail
Finish(c, result) ==
    /\ HoldsLease(c)
    /\ state' = [state EXCEPT ![c.job] = result]
    /\ lease' = [lease EXCEPT ![c.job] = NoLease]
    /\ settler' = [settler EXCEPT ![c.job] = c.token]
    /\ UNCHANGED <<clock, attempts, availableAt, createdAt, damaged, scrubCursor,
                   claims, issued, lapsed>>

\* Faulty variant: one attempt too many.
GivesUpLate(c) == c.attempt > MaxAttempts

GivesUp(c) == c.attempt >= MaxAttempts

\* available_at is pushed back also when the job fails for good.
Retry(c) ==
    /\ HoldsLease(c)
    /\ state' = [state EXCEPT ![c.job] = IF GivesUp(c) THEN "FAILED" ELSE "PENDING"]
    /\ availableAt' = [availableAt EXCEPT ![c.job] = clock + RetryDelay]
    /\ lease' = [lease EXCEPT ![c.job] = NoLease]
    /\ settler' = [settler EXCEPT ![c.job] = IF GivesUp(c) THEN c.token ELSE @]
    /\ UNCHANGED <<clock, attempts, createdAt, damaged, scrubCursor, claims,
                   issued, lapsed>>

-----------------------------------------------------------------------------
Next ==
    \/ Tick
    \/ Restart
    \/ \E j \in Job : Damage(j)
    \/ \E batch \in SUBSET Job, at \in 0..clock : DiscoverMany(batch, at)
    \/ \E w \in Consumer, until \in 0..MaxTime : ClaimNext(w, until)
    \/ RecoverExpiredClaims
    \/ \E c \in claims, result \in TerminalStates : Finish(c, result)
    \/ \E c \in claims : Retry(c)

Spec == Init /\ [][Next]_queueVars

-----------------------------------------------------------------------------
(* What makes the queue correct. *)

\* The table holds at most max_active_jobs unfinished jobs, also after retries and
\* lease recoveries have put jobs back among the pending ones.
WithinCapacity == Cardinality(Active) <= MaxActive

\* retry never makes a job pending again once its attempts are used up: each attempt
\* from the max_attempts-th on ended with an expired lease, which
\* recover_expired_claims answers without looking at attempt_count.  How many such
\* attempts there are is not bounded.
RetryBudget ==
    \A j \in Job : state[j] = "PENDING" /\ attempts[j] >= MaxAttempts =>
        lapsed[j] = attempts[j] - MaxAttempts + 1

\* A finished job stays finished: no late retry, expired lease or new sighting of
\* the same link brings it back.
FinishedForGood ==
    [][\A j \in Job : state[j] \in TerminalStates => state'[j] = state[j]]_queueVars

\* Invalid rows do not block the queue: while a valid job is ready, a call of
\* claim_next hands out a job or gets rid of an invalid row, whatever the batch
\* sizes and wherever the scrub cursor stands.
NoHeadOfLineBlocking ==
    (\E j \in Pending \ damaged : availableAt[j] <= clock) =>
        Claimable # {} \/ Rejected # {}

-----------------------------------------------------------------------------
(* The job table is a fenced queue of downloads, in which a damaged row    *)
(* may be given up.                                                        *)

Phase(j) ==
    CASE state[j] = "ABSENT" -> "absent"
      [] state[j] = "PENDING" -> "queued"
      [] state[j] = "PROCESSING" -> "leased"
      [] OTHER -> "settled"

Queue == INSTANCE FencedQueue WITH
             Item <- Job,
             Losable <- Damageable,
             phase <- [j \in Job |-> Phase(j)],
             holder <- [j \in Job |-> lease[j].token]

\* Refinement: a late completion, failure or retry of a claim that lost its lease
\* never touches the job that somebody else is working on, and no job but a damaged
\* one ends without the completion of its newest claim.
ImplementsFencedQueue == Queue!QSpec

==============================================================================
