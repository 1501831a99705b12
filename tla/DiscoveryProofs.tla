---------------------------- MODULE DiscoveryProofs ----------------------------
(***************************************************************************)
(* Theorems about the durable job table (DiscoveryQueue) and about the     *)
(* intake of artifacts that works it off (ArtifactIntake), for every       *)
(* finite set of jobs, every set of consumers and every value of the       *)
(* limits.  The table comes first: an intake step leaves it alone or does  *)
(* to it what an operation of FileDiscoverySink does.                      *)
(***************************************************************************)
EXTENDS ArtifactIntake, TLAPS, FiniteSetTheorems, NaturalsInduction,
        WellFoundedInduction

-----------------------------------------------------------------------------
(* The row sets of claim_next.                                             *)

\* Both batches of claim_next consist of pending rows; what is claimed is valid, what
\* is rejected is not.
LEMMA RowSets ==
  ASSUME TypeOK
  PROVE  /\ Pending \subseteq Job
         /\ Scrubbed \subseteq Pending
         /\ ReadyRows \subseteq Pending
         /\ Examined \subseteq ReadyRows
         /\ Claimable \subseteq Examined \ damaged
         /\ Rejected \subseteq Pending \cap damaged
<1>1. Pending \subseteq Job
  BY DEF Pending
<1>2. Scrubbed \subseteq Pending
  BY DEF Scrubbed, First
<1>3. ReadyRows \subseteq Pending
  BY DEF ReadyRows, First
<1>4. Examined \subseteq ReadyRows
  BY DEF Examined
<1>5. Claimable \subseteq Examined \ damaged
  BY DEF Claimable, First
<1>6. Rejected \subseteq Pending \cap damaged
  BY <1>2, <1>3, <1>4 DEF Rejected
<1> QED
  BY <1>1, <1>2, <1>3, <1>4, <1>5, <1>6

\* The claim order is total on jobs: job_id breaks every tie.
LEMMA AgeIsTotal ==
  ASSUME TypeOK, NEW i \in Job, NEW j \in Job, i # j
  PROVE  ByAge(i, j) \/ ByAge(j, i)
  BY QueueAssumption DEF ByAge, TypeOK

\* A call of claim_next hands out one job at most.
LEMMA OneClaimable ==
  ASSUME TypeOK, NEW i \in Claimable, NEW j \in Claimable
  PROVE  i = j
<1>1. ASSUME NEW a \in Claimable, NEW b \in Claimable, ByAge(a, b)
      PROVE  FALSE
  <2> DEFINE older == {k \in Examined \ damaged : ByAge(k, b)}
  <2>1. older \in SUBSET Job /\ a \in older
    BY <1>1, RowSets
  <2>2. IsFiniteSet(older)
    BY <2>1, FS_Subset, QueueAssumption
  <2>3. Cardinality(older) < 1
    BY <1>1 DEF Claimable, First
  <2>4. Cardinality(older) = 0
    BY <2>2, <2>3, FS_CardinalityType
  <2> QED
    BY <2>1, <2>2, <2>4, FS_EmptySet
<1>2. i \in Job /\ j \in Job
  BY RowSets
<1> QED
  BY <1>1, <1>2, AgeIsTotal

\* A nonempty finite set of numbers has a greatest member.
LEMMA GreatestNumber ==
  ASSUME NEW S \in SUBSET Nat, IsFiniteSet(S), S # {}
  PROVE  \E m \in S : \A n \in S : n <= m
<1> DEFINE HasGreatest(U) == \E m \in U : \A n \in U : n <= m
           Lacking == {U \in SUBSET S : U # {} /\ ~HasGreatest(U)}
<1>1. SUFFICES ASSUME Lacking # {}
               PROVE  FALSE
  BY <1>1
<1>2. Lacking \subseteq FiniteSubsetsOf(S)
  BY FS_FiniteSubsetsOfFinite
<1>3. PICK U \in Lacking : \A V \in Lacking : ~(<<V, U>> \in StrictSubsetOrdering(S))
  <2> HIDE DEF Lacking
  <2> QED
    BY <1>1, <1>2, FS_StrictSubsetOrderingWellFounded, WFMin
<1>4. PICK x \in U : TRUE
  OBVIOUS
<1>5. U \ {x} \notin Lacking
  BY <1>3, <1>4 DEF StrictSubsetOrdering
<1>6. CASE U \ {x} = {}
  BY <1>4, <1>6
<1>7. CASE U \ {x} # {}
  <2>1. PICK m \in U \ {x} : \A n \in U \ {x} : n <= m
    BY <1>5, <1>7
  <2> QED
    BY <1>4, <2>1
<1> QED
  BY <1>6, <1>7

-----------------------------------------------------------------------------
(* Types.                                                                  *)

\* An empty table is well typed.
LEMMA InitTypeOK == Init => TypeOK
  BY QueueAssumption DEF Init, TypeOK, JobStates, NoLease, Leases

\* Every operation keeps the types, and the CHECK that exactly the jobs in processing
\* carry a lease.
LEMMA NextTypeOK == TypeOK /\ [Next]_queueVars => TypeOK'
<1> SUFFICES ASSUME TypeOK, [Next]_queueVars
             PROVE  TypeOK'
  OBVIOUS
<1> USE QueueAssumption DEF JobStates, ActiveStates, TerminalStates
<1>1. CASE Tick
  BY <1>1 DEF Tick, TypeOK
<1>2. CASE Restart
  BY <1>2 DEF Restart, TypeOK
<1>3. ASSUME NEW j \in Job, Damage(j)
      PROVE  TypeOK'
  BY <1>3 DEF Damage, TypeOK
<1>4. ASSUME NEW batch \in SUBSET Job, NEW at \in 0..clock, DiscoverMany(batch, at)
      PROVE  TypeOK'
  BY <1>4 DEF DiscoverMany, Insert, Unknown, TypeOK
<1>5. ASSUME NEW w \in Consumer, NEW until \in 0..MaxTime, ClaimNext(w, until)
      PROVE  TypeOK'
  <2> DEFINE won == Claimable
             new == [owner |-> w, expires |-> until, token |-> issued + 1]
             granted == {[job |-> j, owner |-> w, attempt |-> attempts[j] + 1,
                          expires |-> until, token |-> issued + 1] : j \in won}
  <2>1. won \subseteq Pending /\ Rejected \subseteq Pending /\ Pending \subseteq Job
        /\ won \cap Rejected = {} /\ \A j \in Pending : state[j] = "PENDING"
    BY RowSets DEF Pending
  <2>2. new \in Leases /\ new # NoLease
    BY DEF Leases, NoLease, TypeOK
  <2>3. granted \subseteq Claims
    BY <2>1 DEF Claims, TypeOK
  <2>4. scrubCursor' \in Nat
    <3>1. CASE Scrubbed = {}
      BY <1>5, <3>1 DEF ClaimNext, CursorAfterScrub
    <3>2. CASE Scrubbed # {}
      <4>1. Scrubbed \in SUBSET Job
        BY RowSets
      <4>2. \E j \in Scrubbed : \A i \in Scrubbed : i <= j
        BY <3>2, <4>1, FS_Subset, GreatestNumber
      <4> QED
        BY <1>5, <3>2, <4>1, <4>2 DEF ClaimNext, CursorAfterScrub
    <3> QED
      BY <3>1, <3>2
  <2>5. /\ clock' = clock /\ availableAt' = availableAt /\ createdAt' = createdAt
        /\ damaged' = damaged /\ settler' = settler /\ lapsed' = lapsed
        /\ claims' = claims \cup granted
        /\ issued' \in Nat
    BY <1>5 DEF ClaimNext, TypeOK
  <2>6. attempts' \in [Job -> Nat]
    BY <1>5 DEF ClaimNext, TypeOK
  <2>7. /\ state' = [j \in Job |-> IF j \in won THEN "PROCESSING"
                                   ELSE IF j \in Rejected THEN "FAILED" ELSE state[j]]
        /\ lease' = [j \in Job |-> IF j \in won THEN new ELSE lease[j]]
    BY <1>5 DEF ClaimNext
  <2>8. \A j \in Job : state'[j] = "PROCESSING" <=> lease'[j] # NoLease
    BY <2>1, <2>2, <2>7 DEF TypeOK
  <2>9. state' \in [Job -> JobStates] /\ lease' \in [Job -> Leases]
    BY <2>2, <2>7 DEF TypeOK
  <2> QED
    BY <2>3, <2>4, <2>5, <2>6, <2>8, <2>9 DEF TypeOK
<1>6. CASE RecoverExpiredClaims
  <2> DEFINE dead == Processing \cap damaged
             over == {j \in Processing \ damaged : lease[j].expires <= clock}
  <2>1. \A j \in dead \cup over : state[j] = "PROCESSING"
    BY DEF Processing
  <2>2. NoLease \in Leases
    BY DEF NoLease, Leases
  <2>3. /\ state' = [j \in Job |-> IF j \in dead THEN "FAILED"
                                   ELSE IF j \in over THEN "PENDING" ELSE state[j]]
        /\ availableAt' = [j \in Job |-> IF j \in over THEN clock ELSE availableAt[j]]
        /\ lease' = [j \in Job |-> IF j \in dead \cup over THEN NoLease ELSE lease[j]]
        /\ lapsed' = [j \in Job |-> IF j \in over THEN LapsedAfter(j) ELSE lapsed[j]]
        /\ UNCHANGED <<clock, attempts, createdAt, damaged, scrubCursor, claims,
                       issued, settler>>
    BY <1>6 DEF RecoverExpiredClaims
  <2> HIDE DEF dead, over
  <2> QED
    BY <2>1, <2>2, <2>3 DEF TypeOK, LapsedAfter
<1>7. ASSUME NEW c \in claims, NEW result \in TerminalStates, Finish(c, result)
      PROVE  TypeOK'
  <2>1. c \in Claims /\ NoLease \in Leases
    BY DEF TypeOK, NoLease, Leases
  <2> QED
    BY <1>7, <2>1 DEF Finish, TypeOK, Claims
<1>8. ASSUME NEW c \in claims, Retry(c)
      PROVE  TypeOK'
  <2>1. c \in Claims /\ NoLease \in Leases
    BY DEF TypeOK, NoLease, Leases
  <2>2. c.job \in Job /\ c.token \in Nat /\ clock + RetryDelay \in Nat
    BY <2>1 DEF Claims, TypeOK
  <2>3. state' \in [Job -> JobStates] /\ availableAt' \in [Job -> Nat]
    BY <1>8, <2>2 DEF Retry, TypeOK
  <2>4. lease' \in [Job -> Leases] /\ settler' \in [Job -> Nat]
    BY <1>8, <2>1, <2>2 DEF Retry, TypeOK
  <2>5. \A j \in Job : state'[j] = "PROCESSING" <=> lease'[j] # NoLease
    BY <1>8, <2>2 DEF Retry, TypeOK
  <2> QED
    BY <1>8, <2>3, <2>4, <2>5 DEF Retry, TypeOK
<1>9. CASE UNCHANGED queueVars
  BY <1>9 DEF queueVars, TypeOK
<1> QED
  BY <1>1, <1>2, <1>3, <1>4, <1>5, <1>6, <1>7, <1>8, <1>9 DEF Next

\* Every reachable state of the job table is well typed: a row is in PROCESSING exactly
\* when it carries a lease (FileDiscoverySink).
THEOREM TypeCorrect == Spec => []TypeOK
  BY InitTypeOK, NextTypeOK, PTL DEF Spec

-----------------------------------------------------------------------------
(* What one step does to one job.                                          *)

\* The step leaves the job as it is.
Kept(j) ==
    /\ state'[j] = state[j] /\ lease'[j] = lease[j]
    /\ attempts'[j] = attempts[j] /\ lapsed'[j] = lapsed[j]
    /\ settler'[j] = settler[j]

Queued(j) ==
    /\ state[j] = "ABSENT" /\ state'[j] = "PENDING"
    /\ lease'[j] = lease[j]
    /\ attempts'[j] = attempts[j] /\ lapsed'[j] = lapsed[j]

Claimed(j) ==
    /\ state[j] = "PENDING" /\ state'[j] = "PROCESSING"
    /\ attempts'[j] = attempts[j] + 1 /\ lapsed'[j] = lapsed[j]
    /\ issued' = issued + 1
    /\ \E c \in Claims :
         /\ claims' = claims \cup {c}
         /\ c.job = j /\ c.token = issued + 1 /\ c.attempt = attempts[j] + 1
         /\ lease'[j] = [owner |-> c.owner, expires |-> c.expires, token |-> c.token]

\* The row was damaged and is given up.
Dropped(j) ==
    /\ state[j] \in ActiveStates /\ state'[j] = "FAILED"
    /\ j \in damaged
    /\ lease'[j] = NoLease
    /\ attempts'[j] = attempts[j] /\ lapsed'[j] = lapsed[j]

Expired(j) ==
    /\ state[j] = "PROCESSING" /\ state'[j] = "PENDING"
    /\ lease'[j] = NoLease
    /\ attempts'[j] = attempts[j] /\ lapsed'[j] = LapsedAfter(j)

\* The holder of the lease ends the job or puts it back.
Returned(j) ==
    \E c \in claims :
        /\ c.job = j /\ HoldsLease(c)
        /\ lease'[j] = NoLease
        /\ attempts'[j] = attempts[j] /\ lapsed'[j] = lapsed[j]
        /\ \/ state'[j] \in TerminalStates
           \/ state'[j] = "PENDING" /\ ~GivesUp(c)

\* Claims and tokens change together, for one job at a time.
SameClaims == claims' = claims /\ issued' = issued

\* What claim_next does: it claims one job or none, and drops the invalid rows it met.
LEMMA ClaimNextDoes ==
  ASSUME TypeOK, NEW w \in Consumer, NEW until \in 0..MaxTime, ClaimNext(w, until)
  PROVE  /\ \A j \in Job : Kept(j) \/ Claimed(j) \/ Dropped(j)
         /\ SameClaims \/ \E j \in Job : Claimed(j)
<1> DEFINE new(j) == [job |-> j, owner |-> w, attempt |-> attempts[j] + 1,
                      expires |-> until, token |-> issued + 1]
<1>1. /\ Claimable \subseteq Pending /\ Rejected \subseteq Pending \cap damaged
      /\ Pending \subseteq Job /\ Claimable \cap Rejected = {}
      /\ \A j \in Pending : state[j] = "PENDING"
  BY RowSets DEF Pending
<1>2. /\ \A j \in Job :
            /\ state'[j] = IF j \in Claimable THEN "PROCESSING"
                           ELSE IF j \in Rejected THEN "FAILED" ELSE state[j]
            /\ attempts'[j] = IF j \in Claimable THEN attempts[j] + 1 ELSE attempts[j]
            /\ lease'[j] = IF j \in Claimable
                           THEN [owner |-> w, expires |-> until, token |-> issued + 1]
                           ELSE lease[j]
      /\ claims' = claims \cup {new(j) : j \in Claimable}
      /\ issued' = IF Claimable = {} THEN issued ELSE issued + 1
      /\ settler' = settler /\ lapsed' = lapsed
  BY DEF ClaimNext
<1>3. ASSUME NEW j \in Claimable
      PROVE  Claimed(j)
  <2>1. Claimable = {j}
    BY <1>3, OneClaimable
  <2>2. claims' = claims \cup {new(j)}
    BY <1>2, <2>1
  <2>3. j \in Job /\ new(j) \in Claims
    BY <1>1, <1>3 DEF Claims, TypeOK
  <2> QED
    BY <1>1, <1>2, <2>2, <2>3 DEF Claimed
<1>4. ASSUME NEW j \in Rejected
      PROVE  Dropped(j)
  <2>1. j \in Job /\ j \notin Claimable /\ state[j] = "PENDING" /\ j \in damaged
    BY <1>1
  <2>2. lease[j] = NoLease
    BY <2>1 DEF TypeOK
  <2> QED
    BY <1>2, <2>1, <2>2 DEF Dropped, ActiveStates
<1>5. ASSUME NEW j \in Job, j \notin Claimable, j \notin Rejected
      PROVE  Kept(j)
  BY <1>2, <1>5 DEF Kept
<1>6. CASE Claimable = {}
  BY <1>2, <1>4, <1>5, <1>6 DEF SameClaims
<1>7. CASE Claimable # {}
  BY <1>1, <1>3, <1>4, <1>5, <1>7
<1> QED
  BY <1>6, <1>7

\* The life of a job, step by step.
LEMMA JobSteps ==
  ASSUME TypeOK, [Next]_queueVars
  PROVE  /\ \A j \in Job : \/ Kept(j) \/ Queued(j) \/ Claimed(j)
                            \/ Dropped(j) \/ Expired(j) \/ Returned(j)
         /\ SameClaims \/ \E j \in Job : Claimed(j)
<1> DEFINE Cases == \A j \in Job : \/ Kept(j) \/ Queued(j) \/ Claimed(j)
                                   \/ Dropped(j) \/ Expired(j) \/ Returned(j)
           Grants == SameClaims \/ \E j \in Job : Claimed(j)
<1>1. ASSUME NEW j \in Job, state'[j] = state[j], lease' = lease,
             attempts' = attempts, lapsed' = lapsed, settler' = settler
      PROVE  Kept(j)
  BY <1>1 DEF Kept
<1>2. CASE Tick \/ Restart \/ UNCHANGED queueVars
  BY <1>1, <1>2 DEF Tick, Restart, queueVars, SameClaims
<1>3. ASSUME NEW i \in Job, Damage(i)
      PROVE  Cases /\ Grants
  BY <1>1, <1>3 DEF Damage, SameClaims
<1>4. ASSUME NEW batch \in SUBSET Job, NEW at \in 0..clock, DiscoverMany(batch, at)
      PROVE  Cases /\ Grants
  <2>1. ASSUME NEW j \in Job
        PROVE  Kept(j) \/ Queued(j)
    <3>1. CASE j \in Unknown(batch)
      BY <1>4, <3>1 DEF DiscoverMany, Insert, Unknown, Queued
    <3>2. CASE j \notin Unknown(batch)
      BY <1>4, <3>2 DEF DiscoverMany, Insert, Kept
    <3> QED
      BY <3>1, <3>2
  <2> QED
    BY <1>4, <2>1 DEF DiscoverMany, Insert, SameClaims
<1>5. ASSUME NEW w \in Consumer, NEW until \in 0..MaxTime, ClaimNext(w, until)
      PROVE  Cases /\ Grants
  BY <1>5, ClaimNextDoes
<1>6. CASE RecoverExpiredClaims
  <2> DEFINE dead == Processing \cap damaged
             over == {j \in Processing \ damaged : lease[j].expires <= clock}
  <2>1. ASSUME NEW j \in Job
        PROVE  Kept(j) \/ Dropped(j) \/ Expired(j)
    <3>1. CASE j \in dead
      BY <1>6, <3>1 DEF RecoverExpiredClaims, Processing, Dropped, ActiveStates
    <3>2. CASE j \in over
      BY <1>6, <3>2 DEF RecoverExpiredClaims, Processing, Expired
    <3>3. CASE j \notin dead \cup over
      BY <1>6, <3>3 DEF RecoverExpiredClaims, Kept
    <3> QED
      BY <3>1, <3>2, <3>3
  <2> QED
    BY <1>6, <2>1 DEF RecoverExpiredClaims, SameClaims
<1>7. ASSUME NEW c \in claims, NEW result \in TerminalStates, Finish(c, result)
      PROVE  Cases /\ Grants
  <2>1. ASSUME NEW j \in Job
        PROVE  Kept(j) \/ Returned(j)
    <3>1. CASE j = c.job
      BY <1>7, <3>1 DEF Finish, Returned, TypeOK
    <3>2. CASE j # c.job
      BY <1>7, <3>2 DEF Finish, Kept, TypeOK
    <3> QED
      BY <3>1, <3>2
  <2> QED
    BY <1>7, <2>1 DEF Finish, SameClaims
<1>8. ASSUME NEW c \in claims, Retry(c)
      PROVE  Cases /\ Grants
  <2>1. ASSUME NEW j \in Job
        PROVE  Kept(j) \/ Returned(j)
    <3>1. CASE j = c.job
      BY <1>8, <3>1 DEF Retry, Returned, TypeOK, TerminalStates
    <3>2. CASE j # c.job
      BY <1>8, <3>2 DEF Retry, Kept, TypeOK
    <3> QED
      BY <3>1, <3>2
  <2> QED
    BY <1>8, <2>1 DEF Retry, SameClaims
<1> QED
  BY <1>2, <1>3, <1>4, <1>5, <1>6, <1>7, <1>8 DEF Next

\* A finished job stays finished: no late retry, expired lease or new sighting of the same
\* link (retry, recover_expired_claims, discover_many) brings it back.
THEOREM FinishedStays == Spec => FinishedForGood
<1>1. TypeOK /\ [Next]_queueVars =>
        \A j \in Job : state[j] \in TerminalStates => state'[j] = state[j]
  BY JobSteps DEF TerminalStates, ActiveStates, Kept, Queued, Claimed, Dropped,
       Expired, Returned, HoldsLease
<1> QED
  BY <1>1, InitTypeOK, NextTypeOK, PTL DEF Spec, FinishedForGood

-----------------------------------------------------------------------------
(* The fence and the retry budget.                                         *)

\* Tokens are never given out twice; the claim that holds the lease of a job is the
\* newest one on it and counted its last attempt.
JobFence ==
    /\ \A c \in claims : c.token \in 1..issued
    /\ \A c, d \in claims : c.token = d.token => c = d
    /\ \A j \in Job : lease[j].token <= issued
    /\ \A c \in claims : state[c.job] = "PROCESSING" /\ lease[c.job].token = c.token
                           => c.attempt = attempts[c.job]
    /\ \A c \in claims : state[c.job] = "PROCESSING" => c.token <= lease[c.job].token

\* As long as a job has attempts left none is noted as lapsed; later, every attempt of
\* a pending job from the last regular one on is, and of a job in processing all but
\* the present one.
BudgetInv ==
    \A j \in Job :
        /\ attempts[j] < MaxAttempts => lapsed[j] = 0
        /\ state[j] = "ABSENT" => attempts[j] = 0
        /\ state[j] = "PENDING" /\ attempts[j] >= MaxAttempts =>
             lapsed[j] = attempts[j] - MaxAttempts + 1
        /\ state[j] = "PROCESSING" /\ attempts[j] >= MaxAttempts =>
             lapsed[j] = attempts[j] - MaxAttempts

QueueInv == TypeOK /\ JobFence /\ BudgetInv

\* No claim, no attempt and no lease in an empty table.
LEMMA InitQueue == Init => QueueInv
<1> SUFFICES ASSUME Init
             PROVE  JobFence /\ BudgetInv
  BY InitTypeOK DEF QueueInv
<1> QED
  BY DEF Init, JobFence, BudgetInv, NoLease

\* A step keeps the fence: only claim_next adds a claim, with a token of its own.
LEMMA NextFence == QueueInv /\ [Next]_queueVars => JobFence'
<1> SUFFICES ASSUME QueueInv, [Next]_queueVars
             PROVE  JobFence'
  OBVIOUS
<1>1. TypeOK /\ JobFence /\ TypeOK'
  BY NextTypeOK DEF QueueInv
<1>2. /\ issued \in Nat /\ issued' \in Nat
      /\ \A c \in claims : c \in Claims /\ c.job \in Job /\ c.token \in Nat
      /\ \A j \in Job : lease[j].token \in Nat /\ lease[j].token <= issued
  BY <1>1 DEF TypeOK, Claims, Leases, JobFence
<1>3. ASSUME NEW j \in Job
      PROVE  \/ lease'[j] = lease[j] \/ lease'[j] = NoLease \/ Claimed(j)
  BY <1>1, JobSteps DEF Kept, Queued, Dropped, Expired, Returned
<1>4. ASSUME NEW c \in claims, state'[c.job] = "PROCESSING", ~Claimed(c.job),
             lease'[c.job].token = c.token
      PROVE  c.attempt = attempts'[c.job]
  <2>1. Kept(c.job)
    BY <1>1, <1>2, <1>4, JobSteps DEF Queued, Dropped, Expired, Returned, TerminalStates
  <2> QED
    BY <1>1, <1>4, <2>1 DEF Kept, JobFence
<1>5. ASSUME NEW c \in claims, state'[c.job] = "PROCESSING", ~Claimed(c.job)
      PROVE  c.token <= lease'[c.job].token
  <2>1. Kept(c.job)
    BY <1>1, <1>2, <1>5, JobSteps DEF Queued, Dropped, Expired, Returned, TerminalStates
  <2> QED
    BY <1>1, <1>5, <2>1 DEF Kept, JobFence
<1>6. CASE SameClaims
  <2>1. \A j \in Job : ~Claimed(j)
    BY <1>2, <1>6 DEF SameClaims, Claimed
  <2>2. \A j \in Job : lease'[j].token <= issued'
    BY <1>2, <1>3, <1>6, <2>1 DEF SameClaims, NoLease
  <2> QED
    BY <1>1, <1>2, <1>4, <1>6, <1>5, <2>1, <2>2 DEF SameClaims, JobFence
<1>7. ASSUME NEW j \in Job, Claimed(j)
      PROVE  JobFence'
  <2>1. PICK c \in Claims :
               /\ claims' = claims \cup {c} /\ issued' = issued + 1
               /\ c.job = j /\ c.token = issued + 1 /\ c.attempt = attempts[j] + 1
               /\ lease'[j] = [owner |-> c.owner, expires |-> c.expires,
                               token |-> c.token]
               /\ attempts'[j] = attempts[j] + 1
    BY <1>7 DEF Claimed
  <2>2. \A i \in Job : lease'[i].token <= issued'
    <3> SUFFICES ASSUME NEW i \in Job
                 PROVE  lease'[i].token <= issued'
      OBVIOUS
    <3>1. CASE Claimed(i)
      BY <1>2, <3>1 DEF Claimed
    <3>2. CASE ~Claimed(i)
      BY <1>2, <1>3, <2>1, <3>2 DEF NoLease
    <3> QED
      BY <3>1, <3>2
  <2>3. \A d \in claims : d.token \in 1..issued /\ d.token # c.token
    BY <1>1, <1>2, <2>1 DEF JobFence
  <2>4. \A d, e \in claims' : d.token = e.token => d = e
    BY <1>1, <2>1, <2>3 DEF JobFence
  <2>5. \A d \in claims' : d.token \in 1..issued'
    BY <1>2, <2>1, <2>3
  <2>6. ASSUME NEW d \in claims', state'[d.job] = "PROCESSING",
               lease'[d.job].token = d.token
        PROVE  d.attempt = attempts'[d.job]
    <3>1. CASE d = c
      BY <2>1, <3>1
    <3>2. CASE d # c
      <4>1. d \in claims
        BY <2>1, <3>2
      <4>2. ~Claimed(d.job)
        <5>1. Claimed(d.job) => lease'[d.job].token = issued + 1
          BY DEF Claimed
        <5>2. d.token \in 1..issued
          BY <2>3, <4>1
        <5> QED
          BY <1>2, <2>6, <5>1, <5>2
      <4> QED
        BY <1>4, <2>6, <4>1, <4>2
    <3> QED
      BY <3>1, <3>2
  <2>7. ASSUME NEW d \in claims', state'[d.job] = "PROCESSING"
        PROVE  d.token <= lease'[d.job].token
    <3>1. d.token \in 1..issued + 1
      BY <2>1, <2>5, <2>7
    <3>2. CASE Claimed(d.job)
      <4>1. lease'[d.job].token = issued + 1
        BY <3>2 DEF Claimed
      <4> QED
        BY <1>2, <3>1, <4>1
    <3>3. CASE ~Claimed(d.job)
      <4>1. d \in claims
        BY <1>7, <2>1, <2>7, <3>3
      <4> QED
        BY <1>5, <2>7, <3>3, <4>1
    <3> QED
      BY <3>2, <3>3
  <2> QED
    BY <2>2, <2>4, <2>5, <2>6, <2>7 DEF JobFence
<1> QED
  BY <1>1, <1>6, <1>7, JobSteps

\* A step keeps the budget: an expired lease raises it, and retry puts back only a job
\* whose claim, and with it the job, has attempts left.
LEMMA NextBudget == QueueInv /\ [Next]_queueVars => BudgetInv'
<1> DEFINE Owes(st, n, owed) ==
             /\ n < MaxAttempts => owed = 0
             /\ st = "ABSENT" => n = 0
             /\ st = "PENDING" /\ n >= MaxAttempts => owed = n - MaxAttempts + 1
             /\ st = "PROCESSING" /\ n >= MaxAttempts => owed = n - MaxAttempts
<1> SUFFICES ASSUME QueueInv, [Next]_queueVars, NEW j \in Job
             PROVE  Owes(state'[j], attempts'[j], lapsed'[j])
  BY DEF BudgetInv
<1>1. /\ TypeOK /\ attempts[j] \in Nat /\ lapsed[j] \in Nat
      /\ MaxAttempts \in Nat /\ MaxAttempts > 0
      /\ Owes(state[j], attempts[j], lapsed[j])
  BY QueueAssumption DEF QueueInv, TypeOK, BudgetInv
<1>2. CASE Kept(j)
  BY <1>1, <1>2 DEF Kept
<1>3. CASE Queued(j)
  BY <1>1, <1>3 DEF Queued
<1>4. CASE Claimed(j)
  BY <1>1, <1>4 DEF Claimed
<1>5. CASE Dropped(j)
  BY <1>1, <1>5 DEF Dropped
<1>6. CASE Expired(j)
  BY <1>1, <1>6 DEF Expired, LapsedAfter
<1>7. CASE Returned(j)
  <2>1. PICK c \in claims :
               /\ c.job = j /\ HoldsLease(c)
               /\ attempts'[j] = attempts[j] /\ lapsed'[j] = lapsed[j]
               /\ \/ state'[j] \in TerminalStates
                  \/ state'[j] = "PENDING" /\ ~GivesUp(c)
    BY <1>7 DEF Returned
  <2>2. c.attempt = attempts[j]
    BY <2>1 DEF HoldsLease, QueueInv, JobFence
  <2> QED
    BY <1>1, <2>1, <2>2 DEF GivesUp, TerminalStates
<1> QED
  BY <1>1, <1>2, <1>3, <1>4, <1>5, <1>6, <1>7, JobSteps

\* The inductive invariant of the job table.
THEOREM QueueInvariant == Spec => []QueueInv
<1>1. QueueInv /\ [Next]_queueVars => QueueInv'
  BY NextTypeOK, NextFence, NextBudget DEF QueueInv
<1> QED
  BY <1>1, InitQueue, PTL DEF Spec

\* Once the attempts are used up retry never returns a job to PENDING: every attempt from
\* the max_attempts-th on ended with a lease that recover_expired_claims found expired.
THEOREM AttemptsAreBounded == Spec => []RetryBudget
<1>1. QueueInv => RetryBudget
  BY QueueAssumption DEF QueueInv, TypeOK, BudgetInv, RetryBudget
<1> QED
  BY <1>1, QueueInvariant, PTL

-----------------------------------------------------------------------------
(* Capacity.                                                               *)

\* Jobs that are not finished are finitely many, however many are known.
LEMMA ActiveIsFinite == IsFiniteSet(Active) /\ Cardinality(Active) \in Nat
<1>1. Active \in SUBSET Job
  BY DEF Active
<1> QED
  BY <1>1, QueueAssumption, FS_Subset, FS_CardinalityType

\* No operation but discover_many makes a job active, and that counts before it inserts.
LEMMA NextCapacity == TypeOK /\ WithinCapacity /\ [Next]_queueVars => WithinCapacity'
<1> SUFFICES ASSUME TypeOK, WithinCapacity, [Next]_queueVars
             PROVE  Cardinality(Active') <= MaxActive
  BY DEF WithinCapacity
<1>1. CASE Active' \subseteq Active
  <2>1. Cardinality(Active') <= Cardinality(Active) /\ Cardinality(Active') \in Nat
    BY <1>1, ActiveIsFinite, FS_Subset, FS_CardinalityType
  <2> QED
    BY <2>1, ActiveIsFinite, QueueAssumption DEF WithinCapacity
<1>2. ASSUME NEW batch \in SUBSET Job, NEW at \in 0..clock, DiscoverMany(batch, at)
      PROVE  Cardinality(Active') <= MaxActive
  <2>1. Active' = Active \cup Unknown(batch) /\ Active \cap Unknown(batch) = {}
    BY <1>2 DEF DiscoverMany, Insert, Active, Unknown, ActiveStates
  <2>2. IsFiniteSet(Unknown(batch)) /\ Cardinality(Unknown(batch)) \in Nat
    BY QueueAssumption, FS_Subset, FS_CardinalityType DEF Unknown
  <2>3. Cardinality(Active') = Cardinality(Active) + Cardinality(Unknown(batch))
    <3>1. Cardinality(Active \cup Unknown(batch)) =
            Cardinality(Active) + Cardinality(Unknown(batch))
              - Cardinality(Active \cap Unknown(batch))
      BY <2>2, ActiveIsFinite, FS_Union
    <3>2. Cardinality(Active \cap Unknown(batch)) = 0
      BY <2>1, FS_EmptySet
    <3> QED
      BY <2>1, <2>2, <3>1, <3>2, ActiveIsFinite
  <2> QED
    BY <1>2, <2>2, <2>3, ActiveIsFinite, QueueAssumption DEF DiscoverMany, QueueFull
<1>3. CASE ~\E batch \in SUBSET Job, at \in 0..clock : DiscoverMany(batch, at)
  <2>1. \A j \in Job : state'[j] \in ActiveStates => state[j] \in ActiveStates
    <3> SUFFICES ASSUME NEW j \in Job, state'[j] \in ActiveStates
                 PROVE  state[j] \in ActiveStates
      OBVIOUS
    <3>1. ~Queued(j)
      BY <1>3 DEF Queued, Next, Tick, Restart, Damage, ClaimNext, RecoverExpiredClaims,
           Finish, Retry, HoldsLease, queueVars, TypeOK, Processing
    <3> QED
      BY <3>1, JobSteps DEF Kept, Claimed, Dropped, Expired, Returned, HoldsLease,
           ActiveStates
  <2> QED
    BY <1>1, <2>1 DEF Active
<1> QED
  BY <1>2, <1>3

\* There are never more than max_active_jobs unfinished jobs, although discover_many alone
\* looks at the limit while retry and recovery put jobs back.
THEOREM CapacityHolds == Spec => []WithinCapacity
<1>1. Init => WithinCapacity
  <2> SUFFICES ASSUME Init
               PROVE  WithinCapacity
    OBVIOUS
  <2>1. Active = {}
    BY DEF Init, Active, ActiveStates
  <2> QED
    BY <2>1, FS_EmptySet, QueueAssumption DEF WithinCapacity
<1> QED
  BY <1>1, InitTypeOK, NextTypeOK, NextCapacity, PTL DEF Spec

-----------------------------------------------------------------------------
(* No invalid row blocks the queue.                                        *)

\* A nonempty set of numbers has a least member.
LEMMA LeastNumber ==
  ASSUME NEW S \in SUBSET Nat, S # {}
  PROVE  \E m \in S : \A n \in S : m <= n
<1> DEFINE Less == {p \in Nat \X Nat : p[1] < p[2]}
<1>1. IsWellFoundedOn(Less, Nat)
  BY NatLessThanWellFounded DEF OpToRel
<1>2. PICK m \in S : \A n \in S : ~(<<n, m>> \in Less)
  <2> HIDE DEF Less
  <2> QED
    BY <1>1, WFMin
<1>3. ASSUME NEW n \in S
      PROVE  m <= n
  <2>1. m \in Nat /\ n \in Nat /\ <<n, m>> \in Nat \X Nat
    OBVIOUS
  <2>2. ~(n < m)
    BY <1>2, <2>1
  <2> QED
    BY <2>1, <2>2
<1> QED
  BY <1>2, <1>3

\* Among any jobs there is one that the claim order puts before all others.
LEMMA OldestJob ==
  ASSUME TypeOK, NEW S \in SUBSET Job, S # {}
  PROVE  \E m \in S : \A n \in S : ~ByAge(n, m)
<1>1. \A j \in S : availableAt[j] \in Nat /\ createdAt[j] \in Nat /\ j \in Nat
  BY QueueAssumption DEF TypeOK
<1>2. PICK t \in {availableAt[j] : j \in S} : \A u \in {availableAt[j] : j \in S} : t <= u
  <2>1. {availableAt[j] : j \in S} \in SUBSET Nat /\ {availableAt[j] : j \in S} # {}
    BY <1>1
  <2> QED
    BY <2>1, LeastNumber
<1> DEFINE first == {j \in S : availableAt[j] = t}
<1>3. PICK r \in {createdAt[j] : j \in first} : \A u \in {createdAt[j] : j \in first} : r <= u
  <2>1. {createdAt[j] : j \in first} \in SUBSET Nat /\ {createdAt[j] : j \in first} # {}
    BY <1>1, <1>2
  <2> QED
    BY <2>1, LeastNumber
<1>4. PICK m \in {j \in first : createdAt[j] = r} :
             \A n \in {j \in first : createdAt[j] = r} : m <= n
  <2>1. {j \in first : createdAt[j] = r} \in SUBSET Nat
        /\ {j \in first : createdAt[j] = r} # {}
    BY <1>1, <1>3
  <2> QED
    BY <2>1, LeastNumber
<1>5. ASSUME NEW n \in S, ByAge(n, m)
      PROVE  FALSE
  <2>1. availableAt[n] = t
    BY <1>1, <1>2, <1>4, <1>5 DEF ByAge
  <2>2. createdAt[n] = r
    BY <1>1, <1>3, <1>4, <1>5, <2>1 DEF ByAge
  <2> QED
    BY <1>1, <1>4, <1>5, <2>1, <2>2 DEF ByAge
<1> QED
  BY <1>4, <1>5

\* The job without an older one in S is among the first n of S.
LEMMA OldestComesFirst ==
  ASSUME NEW n \in Nat \ {0}, NEW S, NEW m \in S, \A i \in S : ~ByAge(i, m)
  PROVE  m \in First(n, S, ByAge)
<1>1. {i \in S : ByAge(i, m)} = {}
  OBVIOUS
<1> QED
  BY <1>1, FS_EmptySet DEF First

\* While a valid job is ready, claim_next hands out a job or rejects a row: the oldest
\* row of the walk is either valid, and then handed out, or invalid, and then rejected.
LEMMA WalkAdvances == TypeOK => NoHeadOfLineBlocking
<1> SUFFICES ASSUME TypeOK, NEW j \in Pending \ damaged, availableAt[j] <= clock,
                    Rejected = {}
             PROVE  Claimable # {}
  BY DEF NoHeadOfLineBlocking
<1> DEFINE ready == {i \in Pending \ (Scrubbed \cap damaged) : availableAt[i] <= clock}
<1>1. ready \in SUBSET Job /\ ready # {}
  BY DEF Pending
<1>2. PICK m \in ready : \A n \in ready : ~ByAge(n, m)
  BY <1>1, OldestJob
<1>3. /\ ClaimBatch \in Nat \ {0} /\ MaxCorrupt \in Nat /\ MaxCorrupt > 0
      /\ 1 \in Nat \ {0}
  BY QueueAssumption
<1>4. m \in ReadyRows
  <2> HIDE DEF ready
  <2>1. m \in First(ClaimBatch, ready, ByAge)
    BY <1>2, <1>3, OldestComesFirst
  <2> QED
    BY <2>1 DEF ReadyRows, ready
<1>5. \A n \in ReadyRows : ~ByAge(n, m)
  BY <1>2 DEF ReadyRows, First
<1>6. m \in Examined
  <2>1. {i \in ReadyRows \cap damaged : ByAge(i, m)} = {}
    BY <1>5
  <2> QED
    BY <1>3, <1>4, <2>1, FS_EmptySet DEF Examined
<1>7. m \in Examined \ damaged /\ \A n \in Examined \ damaged : ~ByAge(n, m)
  BY <1>5, <1>6, RowSets DEF Rejected
<1>8. m \in First(1, Examined \ damaged, ByAge)
  BY <1>3, <1>7, OldestComesFirst
<1> QED
  BY <1>8 DEF Claimable

\* No damaged row holds the queue up: while a valid job is ready, claim_next hands out a
\* job or puts away an invalid row, whatever the batch sizes and the scrub cursor.
THEOREM QueueAdvances == Spec => []NoHeadOfLineBlocking
  BY TypeCorrect, WalkAdvances, PTL

-----------------------------------------------------------------------------
(* The job table implements the fenced queue.                              *)

\* The empty table is an empty queue.
LEMMA InitRefines == Init => Queue!QInit
  BY DEF Init, Queue!QInit, Phase, NoLease

\* The phase of a job follows from its state.
LEMMA PhaseOfState ==
  ASSUME NEW j \in Job, state[j] \in JobStates
  PROVE  /\ Phase(j) = "absent" <=> state[j] = "ABSENT"
         /\ Phase(j) = "queued" <=> state[j] = "PENDING"
         /\ Phase(j) = "leased" <=> state[j] = "PROCESSING"
         /\ Phase(j) = "settled" <=> state[j] \in TerminalStates
  BY DEF Phase, JobStates, ActiveStates, TerminalStates

\* So does the phase after a step.
LEMMA PhaseAfter ==
  ASSUME NEW j \in Job
  PROVE  /\ state'[j] = state[j] => Phase(j)' = Phase(j)
         /\ state'[j] = "PENDING" => Phase(j)' = "queued"
         /\ state'[j] = "PROCESSING" => Phase(j)' = "leased"
         /\ state'[j] \in TerminalStates => Phase(j)' = "settled"
  BY DEF Phase, TerminalStates

\* An operation that leaves states, leases and results alone is a stutter.
LEMMA Stutter ==
  ASSUME state' = state, lease' = lease, settler' = settler, issued' = issued
  PROVE  UNCHANGED Queue!qvars
<1>1. [j \in Job |-> Phase(j)]' = [j \in Job |-> Phase(j)]
  BY PhaseAfter
<1>2. [j \in Job |-> lease[j].token]' = [j \in Job |-> lease[j].token]
  OBVIOUS
<1> QED
  BY <1>1, <1>2 DEF Queue!qvars

\* The steps of the queue that may lose items.
LEMMA LossySteps ==
  ASSUME NEW lost \in SUBSET Damageable
  PROVE  /\ \A i \in Job : Queue!Lease(i, lost) => Queue!QNext
         /\ \A S \in SUBSET Job : Queue!Requeue(S, lost) => Queue!QNext
  BY Zenon DEF Queue!QNext

\* The new jobs of a batch enter the queue together; a batch of known jobs is a stutter.
LEMMA DiscoverRefines ==
  ASSUME TypeOK, NEW batch \in SUBSET Job, NEW at \in 0..clock, DiscoverMany(batch, at)
  PROVE  Queue!QNext \/ UNCHANGED Queue!qvars
<1> DEFINE phase == [j \in Job |-> Phase(j)]
           new == Unknown(batch)
<1>1. /\ new \in SUBSET Job /\ \A j \in new : state[j] = "ABSENT"
      /\ state' = [j \in Job |-> IF j \in new THEN "PENDING" ELSE state[j]]
      /\ UNCHANGED <<lease, settler, issued>>
  BY DEF DiscoverMany, Insert, Unknown
<1> HIDE DEF new
<1>2. CASE new = {}
  BY <1>1, <1>2, Stutter DEF TypeOK
<1>3. CASE new # {}
  <2>1. \A j \in new : phase[j] = "absent"
    BY <1>1, PhaseOfState DEF JobStates
  <2>2. phase' = [j \in Job |-> IF j \in new THEN "queued" ELSE phase[j]]
    BY <1>1, PhaseAfter
  <2>3. [j \in Job |-> lease[j].token]' = [j \in Job |-> lease[j].token]
    BY <1>1
  <2>4. Queue!Add(new)
    BY <1>1, <1>3, <2>1, <2>2, <2>3 DEF Queue!Add
  <2> QED
    BY <1>1, <2>4 DEF Queue!QNext
<1> QED
  BY <1>2, <1>3

\* claim_next grants one lease, or gives up the damaged rows that it met.
LEMMA ClaimRefines ==
  ASSUME TypeOK, NEW w \in Consumer, NEW until \in 0..MaxTime, ClaimNext(w, until)
  PROVE  Queue!QNext \/ UNCHANGED Queue!qvars
<1> DEFINE phase == [j \in Job |-> Phase(j)]
           holder == [j \in Job |-> lease[j].token]
<1>0. PICK lost : lost = Rejected
  OBVIOUS
<1>1. /\ Claimable \subseteq Pending /\ lost \subseteq Pending /\ Pending \subseteq Job
      /\ Claimable \cap lost = {} /\ lost \in SUBSET Damageable
      /\ \A j \in Pending : state[j] = "PENDING" /\ lease[j] = NoLease
  BY <1>0, RowSets DEF Pending, TypeOK
<1>2. /\ \A j \in Job :
            /\ state'[j] = IF j \in Claimable THEN "PROCESSING"
                           ELSE IF j \in lost THEN "FAILED" ELSE state[j]
            /\ lease'[j] = IF j \in Claimable
                           THEN [owner |-> w, expires |-> until, token |-> issued + 1]
                           ELSE lease[j]
      /\ issued' = IF Claimable = {} THEN issued ELSE issued + 1
      /\ settler' = settler
      /\ state' \in [Job -> JobStates] /\ lease' \in [Job -> Leases]
  <2>1. TypeOK'
    BY NextTypeOK DEF Next
  <2> QED
    BY <1>0, <2>1 DEF ClaimNext, TypeOK
<1>3. \A j \in Pending : phase[j] = "queued"
  BY <1>1, PhaseOfState DEF JobStates, ActiveStates
<1>4. \A j \in Job : Phase(j)' = IF j \in Claimable THEN "leased"
                                 ELSE IF j \in lost THEN "settled" ELSE Phase(j)
  BY <1>1, <1>2, PhaseAfter DEF TerminalStates
<1>5. ASSUME NEW i \in Claimable
      PROVE  Queue!QNext
  <2>1. Claimable = {i} /\ i \in Job
    BY <1>1, OneClaimable
  <2>2. phase' = [j \in Job |-> IF j = i THEN "leased"
                                ELSE IF j \in lost THEN "settled" ELSE phase[j]]
    BY <1>4, <2>1
  <2>3. holder' = [holder EXCEPT ![i] = issued + 1]
    <3>1. \A j \in Job : lease'[j].token = IF j = i THEN issued + 1 ELSE lease[j].token
      BY <1>2, <2>1
    <3> QED
      BY <2>1, <3>1
  <2>4. phase[i] = "queued" /\ \A j \in lost : j # i /\ phase[j] = "queued"
    BY <1>1, <1>3
  <2>5. Queue!Lease(i, lost)
    BY <1>2, <2>1, <2>2, <2>3, <2>4 DEF Queue!Lease
  <2> QED
    BY <1>1, <2>1, <2>5, LossySteps
<1>6. CASE Claimable = {} /\ lost # {}
  <2>1. phase' = [j \in Job |-> IF j \in {} THEN "queued"
                                ELSE IF j \in lost THEN "settled" ELSE phase[j]]
    BY <1>4, <1>6
  <2>2. holder' = [j \in Job |-> IF j \in {} \cup lost THEN 0 ELSE holder[j]]
    BY <1>1, <1>2, <1>6 DEF NoLease
  <2>3. /\ {} \cup lost # {}
        /\ \A j \in {} : j \notin lost /\ phase[j] = "leased"
        /\ \A j \in lost : phase[j] \in {"queued", "leased"}
    BY <1>1, <1>3, <1>6
  <2>4. Queue!Requeue({}, lost)
    BY <1>2, <1>6, <2>1, <2>2, <2>3 DEF Queue!Requeue
  <2>5. {} \in SUBSET Job
    OBVIOUS
  <2> QED
    BY <1>1, <2>4, <2>5, LossySteps
<1>7. CASE Claimable = {} /\ lost = {}
  <2>1. state' = state /\ lease' = lease
    BY <1>2, <1>7 DEF TypeOK
  <2> QED
    BY <1>2, <1>7, <2>1, Stutter
<1> QED
  BY <1>5, <1>6, <1>7

\* Expired leases end without a result, and damaged rows are given up.
LEMMA RecoverRefines ==
  ASSUME TypeOK, RecoverExpiredClaims
  PROVE  Queue!QNext
<1> DEFINE phase == [j \in Job |-> Phase(j)]
           holder == [j \in Job |-> lease[j].token]
<1>0. PICK dead, over :
             /\ dead = Processing \cap damaged
             /\ over = {j \in Processing \ damaged : lease[j].expires <= clock}
  OBVIOUS
<1>1. /\ dead \in SUBSET Damageable /\ over \in SUBSET Job
      /\ dead \subseteq Job /\ dead \cap over = {}
      /\ \A j \in dead \cup over : state[j] = "PROCESSING"
  BY <1>0 DEF Processing, TypeOK
<1>2. /\ dead \cup over # {}
      /\ \A j \in Job :
            /\ state'[j] = IF j \in dead THEN "FAILED"
                           ELSE IF j \in over THEN "PENDING" ELSE state[j]
            /\ lease'[j] = IF j \in dead \cup over THEN NoLease ELSE lease[j]
      /\ settler' = settler /\ issued' = issued
  BY <1>0 DEF RecoverExpiredClaims
<1>3. \A j \in dead \cup over : phase[j] = "leased"
  BY <1>1, PhaseOfState DEF JobStates, ActiveStates
<1>4. phase' = [j \in Job |-> IF j \in over THEN "queued"
                              ELSE IF j \in dead THEN "settled" ELSE phase[j]]
  BY <1>1, <1>2, PhaseAfter DEF TerminalStates
<1>5. holder' = [j \in Job |-> IF j \in over \cup dead THEN 0 ELSE holder[j]]
  BY <1>2 DEF NoLease
<1>6. Queue!Requeue(over, dead)
  BY <1>1, <1>2, <1>3, <1>4, <1>5 DEF Queue!Requeue
<1> QED
  BY <1>1, <1>6, LossySteps

\* A claim that holds its lease settles its job, or gives it back.
LEMMA ReturnRefines ==
  ASSUME TypeOK, NEW c \in claims, HoldsLease(c), issued' = issued,
         NEW result \in TerminalStates \cup {"PENDING"},
         state' = [state EXCEPT ![c.job] = result],
         lease' = [lease EXCEPT ![c.job] = NoLease],
         settler' = [settler EXCEPT ![c.job] = IF result = "PENDING" THEN @ ELSE c.token]
  PROVE  Queue!QNext
<1> DEFINE phase == [j \in Job |-> Phase(j)]
           holder == [j \in Job |-> lease[j].token]
           i == c.job
<1>1. i \in Job /\ lease \in [Job -> Leases] /\ state \in [Job -> JobStates]
      /\ settler \in [Job -> Nat]
  BY DEF TypeOK, Claims
<1>2. phase[i] = "leased" /\ holder[i] = c.token
  BY <1>1, PhaseOfState DEF HoldsLease
<1>3. \A j \in Job : j # i => Phase(j)' = Phase(j)
  BY <1>1, PhaseAfter
<1>4. holder' = [holder EXCEPT ![i] = 0]
  BY <1>1 DEF NoLease
<1>5. CASE result \in TerminalStates
  <2>1. phase' = [phase EXCEPT ![i] = "settled"]
    BY <1>1, <1>3, <1>5, PhaseAfter
  <2>2. settler' = [settler EXCEPT ![i] = holder[i]]
    BY <1>2, <1>5 DEF TerminalStates
  <2> HIDE DEF i
  <2>3. Queue!Settle(i)
    BY <1>2, <1>4, <2>1, <2>2 DEF Queue!Settle
  <2> QED
    BY <1>1, <2>3 DEF Queue!QNext
<1>6. CASE result = "PENDING"
  <2>1. phase' = [j \in Job |-> IF j \in {i} THEN "queued"
                                ELSE IF j \in {} THEN "settled" ELSE phase[j]]
    BY <1>1, <1>3, <1>6, PhaseAfter
  <2>2. holder' = [j \in Job |-> IF j \in {i} \cup {} THEN 0 ELSE holder[j]]
    BY <1>4
  <2>3. settler' = settler
    BY <1>1, <1>6
  <2> HIDE DEF i
  <2>4. Queue!Requeue({i}, {})
    BY <1>2, <2>1, <2>2, <2>3 DEF Queue!Requeue
  <2> QED
    BY <1>1, <2>4 DEF Queue!QNext
<1> QED
  BY <1>5, <1>6

\* Every operation of the job table is one step of the queue or a stutter.
LEMMA NextRefines == TypeOK /\ [Next]_queueVars => [Queue!QNext]_(Queue!qvars)
<1> SUFFICES ASSUME TypeOK, [Next]_queueVars
             PROVE  Queue!QNext \/ UNCHANGED Queue!qvars
  BY DEF Queue!qvars
<1>1. CASE Tick \/ Restart \/ UNCHANGED queueVars
  BY <1>1, Stutter DEF Tick, Restart, queueVars
<1>2. ASSUME NEW j \in Job, Damage(j)
      PROVE  UNCHANGED Queue!qvars
  BY <1>2, Stutter DEF Damage
<1>3. ASSUME NEW c \in claims, NEW result \in TerminalStates, Finish(c, result)
      PROVE  Queue!QNext
  <2>1. result # "PENDING"
    BY DEF TerminalStates
  <2> QED
    BY <1>3, <2>1, ReturnRefines DEF Finish
<1>4. ASSUME NEW c \in claims, Retry(c)
      PROVE  Queue!QNext
  <2> DEFINE result == IF GivesUp(c) THEN "FAILED" ELSE "PENDING"
  <2>1. /\ result \in TerminalStates \cup {"PENDING"}
        /\ result = "PENDING" <=> ~GivesUp(c)
    BY DEF TerminalStates
  <2>2. /\ state' = [state EXCEPT ![c.job] = result]
        /\ settler' = [settler EXCEPT ![c.job] = IF result = "PENDING" THEN @ ELSE c.token]
        /\ lease' = [lease EXCEPT ![c.job] = NoLease]
        /\ HoldsLease(c) /\ issued' = issued
    BY <1>4, <2>1 DEF Retry
  <2> HIDE DEF result
  <2> QED
    BY <2>1, <2>2, ReturnRefines
<1> QED
  BY <1>1, <1>2, <1>3, <1>4, DiscoverRefines, ClaimRefines, RecoverRefines DEF Next

\* The job table is a fenced queue of downloads: only the newest claim ends a job, and
\* only a damaged job ends without one.
THEOREM JobsImplementQueue == Spec => ImplementsFencedQueue
  BY InitTypeOK, NextTypeOK, InitRefines, NextRefines, PTL
     DEF Spec, ImplementsFencedQueue, Queue!QSpec

-----------------------------------------------------------------------------
(* The intake.  It works the job table off by its operations alone.        *)

\* A claim is never forgotten by the table, and what a consumer holds is one.
LEMMA ClaimsGrow ==
  ASSUME TypeOK, [Next]_queueVars
  PROVE  claims \subseteq claims'
  BY JobSteps DEF SameClaims, Claimed

\* A consumer in the middle of run_once holds a claim.
LEMMA BusyHoldsClaim ==
  ASSUME IntakeTypeOK, NEW w \in Consumer, pc[w] # "idle"
  PROVE  held[w] \in claims /\ held[w] \in Claims /\ held[w].job \in Job
<1>1. held[w] \in claims
  BY DEF IntakeTypeOK
<1> QED
  BY <1>1 DEF IntakeTypeOK, TypeOK, Claims

\* Every step of the intake is an operation of the job table or leaves it alone.
LEMMA IntakeStepIsQueueStep == IntakeTypeOK /\ [IntakeNext]_vars => [Next]_queueVars
<1> SUFFICES ASSUME IntakeTypeOK, [IntakeNext]_vars
             PROVE  Next \/ UNCHANGED queueVars
  OBVIOUS
<1>t. clock \in Nat /\ MaxTime \in Nat
  BY QueueAssumption DEF IntakeTypeOK, TypeOK
<1>1. CASE Tick
  BY <1>1 DEF Next
<1>2. CASE Crash
  BY <1>2 DEF Crash, Restart, Next, queueVars
<1>3. CASE QueueMissing
  <2>1. seen \in SUBSET Job /\ clock \in 0..clock
    BY <1>t DEF IntakeTypeOK
  <2> QED
    BY <1>3, <2>1 DEF QueueMissing, Next
<1>4. ASSUME NEW w \in Consumer, NEW until \in 1..MaxTime, Claim(w, until)
      PROVE  Next
  <2>1. until \in 0..MaxTime
    BY <1>t
  <2> QED
    BY <1>4, <2>1 DEF Claim, Next
<1>5. ASSUME NEW w \in Consumer, EndClaim(w)
      PROVE  Next \/ UNCHANGED queueVars
  <2>1. pc[w] \in {"complete", "fail", "retry"}
    BY <1>5 DEF EndClaim
  <2>2. held[w] \in claims
    BY <2>1, BusyHoldsClaim
  <2> QED
    BY <1>5, <2>2 DEF EndClaim, Next, TerminalStates
<1>6. ASSUME NEW w \in Consumer, Recover(w)
      PROVE  Next
  BY <1>6 DEF Recover, Next
<1>7. CASE UNCHANGED queueVars
  BY <1>7
<1>8. CASE UNCHANGED vars
  BY <1>8 DEF vars
<1> QED
  BY <1>1, <1>2, <1>3, <1>4, <1>5, <1>6, <1>7, <1>8
     DEF IntakeNext, ReadDecisions, Fetch, Register, Refused, Interrupted,
         CapturePersist, CaptureRegister

\* A consumer that gets a claim gets one with the token just issued.
LEMMA FreshClaim ==
  ASSUME TypeOK, [Next]_queueVars, issued' # issued
  PROVE  /\ \E c \in claims' : c.token = issued'
         /\ issued' = issued + 1
  BY JobSteps DEF SameClaims, Claimed

\* Nothing is known and nobody works.
LEMMA InitIntakeTypeOK == IntakeInit => IntakeTypeOK
  BY InitTypeOK DEF IntakeInit, IntakeTypeOK, Steps

\* The intake keeps its types; a consumer holds a claim exactly while it is busy.
LEMMA NextIntakeTypeOK == IntakeTypeOK /\ [IntakeNext]_vars => IntakeTypeOK'
<1> SUFFICES ASSUME IntakeTypeOK, [IntakeNext]_vars
             PROVE  IntakeTypeOK'
  OBVIOUS
<1>1. [Next]_queueVars /\ TypeOK /\ TypeOK' /\ claims \subseteq claims'
  BY IntakeStepIsQueueStep, NextTypeOK, ClaimsGrow DEF IntakeTypeOK
<1>2. /\ \A c \in claims' : c # NoClaim
      /\ held \in [Consumer -> claims' \cup {NoClaim}]
      /\ pc \in [Consumer -> Steps]
      /\ \A w \in Consumer : pc[w] = "idle" <=> held[w] = NoClaim
      /\ seen \subseteq Job /\ uploading \subseteq Digest
      /\ published \subseteq Digest /\ registered \subseteq Digest
  BY <1>1, QueueAssumption DEF IntakeTypeOK, TypeOK, Claims, NoClaim
<1>3. CASE UNCHANGED intakeVars
  BY <1>1, <1>2, <1>3 DEF intakeVars, IntakeTypeOK
<1>4. CASE Crash
  BY <1>1, <1>4 DEF Crash, IntakeTypeOK, Steps
<1>5. ASSUME NEW links \in SUBSET Job, ReadDecisions(links)
      PROVE  IntakeTypeOK'
  BY <1>1, <1>2, <1>5 DEF ReadDecisions, IntakeTypeOK
<1>6. CASE QueueMissing
  BY <1>1, <1>2, <1>6 DEF QueueMissing, IntakeTypeOK
<1>7. ASSUME NEW w \in Consumer, NEW until \in 1..MaxTime, Claim(w, until)
      PROVE  IntakeTypeOK'
  <2>1. CASE issued' = issued
    BY <1>1, <1>2, <1>7, <2>1 DEF Claim, IntakeTypeOK
  <2>2. CASE issued' # issued
    <3> DEFINE c == CHOOSE c \in claims' : c.token = issued'
    <3>1. c \in claims'
      BY <1>1, <2>2, FreshClaim
    <3>2. held' = [held EXCEPT ![w] = c] /\ pc' = [pc EXCEPT ![w] = "fetch"]
          /\ UNCHANGED <<seen, uploading, published, registered>>
      BY <1>7, <2>2 DEF Claim, Goto
    <3> HIDE DEF c
    <3> QED
      BY <1>1, <1>2, <3>1, <3>2 DEF IntakeTypeOK, Steps
  <2> QED
    BY <2>1, <2>2
<1>8. ASSUME NEW w \in Consumer, NEW step \in Steps \ {"idle"}, pc[w] # "idle",
             Goto(w, step), held' = held, seen' = seen, uploading' = uploading,
             published' \subseteq Digest, registered' \subseteq Digest
      PROVE  IntakeTypeOK'
  BY <1>1, <1>2, <1>8 DEF Goto, IntakeTypeOK
<1>9. ASSUME NEW w \in Consumer, Fetch(w) \/ Register(w) \/ Refused(w) \/ Interrupted(w)
      PROVE  IntakeTypeOK'
  <2>1. pc[w] # "idle"
    BY <1>9 DEF Fetch, Register, Refused, Interrupted
  <2>2. Target(w) \in Digest
    BY <2>1, BusyHoldsClaim, IntakeAssumption DEF Target
  <2> QED
    BY <1>2, <1>8, <1>9, <2>1, <2>2 DEF Fetch, Register, Refused, Interrupted, Steps
<1>10. ASSUME NEW w \in Consumer, EndClaim(w)
       PROVE  IntakeTypeOK'
  <2>1. /\ pc' = [pc EXCEPT ![w] = "idle"] /\ held' = [held EXCEPT ![w] = NoClaim]
        /\ UNCHANGED <<seen, uploading, published, registered>>
    BY <1>10 DEF EndClaim, Done, Goto
  <2> QED
    BY <1>1, <1>2, <2>1 DEF IntakeTypeOK, Steps
<1>11. ASSUME NEW d \in Digest, CapturePersist(d) \/ CaptureRegister(d)
       PROVE  IntakeTypeOK'
  BY <1>1, <1>2, <1>11 DEF CapturePersist, CaptureRegister, IntakeTypeOK
<1> QED
  BY <1>3, <1>4, <1>5, <1>6, <1>7, <1>9, <1>10, <1>11
     DEF IntakeNext, Recover, vars

\* Every reachable state of the intake is well typed: a consumer in the middle of run_once
\* works on a claim that the table gave out.
THEOREM IntakeTypeCorrect == IntakeSpec => []IntakeTypeOK
  BY InitIntakeTypeOK, NextIntakeTypeOK, PTL DEF IntakeSpec

\* Whatever its consumers, uploads and crashes do, the intake is a behaviour of the
\* job table, so that all that is proved of the table holds in it.
THEOREM IntakeRunsQueue == IntakeSpec => Spec
<1>1. IntakeInit => Init
  BY DEF IntakeInit
<1> QED
  BY <1>1, InitIntakeTypeOK, NextIntakeTypeOK, IntakeStepIsQueueStep, PTL
     DEF IntakeSpec, Spec

-----------------------------------------------------------------------------
(* What the intake leaves behind.                                          *)

\* What each point of run_once and of an upload has already done.
Progress ==
    /\ \A w \in Consumer :
         /\ pc[w] = "register" => Target(w) \in published
         /\ pc[w] = "complete" => Target(w) \in registered
    /\ uploading \subseteq published

IntakeInv ==
    /\ IntakeTypeOK
    /\ QueueInv
    /\ Progress
    /\ CompletedIsRegistered
    /\ RegisteredIsPublished
    /\ damaged = {}

\* Nothing is claimed, completed or registered at the start.
LEMMA InitIntake == IntakeInit => IntakeInv
<1> SUFFICES ASSUME IntakeInit
             PROVE  IntakeInv
  OBVIOUS
<1>1. IntakeTypeOK /\ QueueInv
  BY InitIntakeTypeOK, InitQueue DEF IntakeInit
<1>2. Progress /\ CompletedIsRegistered /\ RegisteredIsPublished /\ damaged = {}
  BY DEF IntakeInit, Init, Progress, CompletedIsRegistered, RegisteredIsPublished
<1> QED
  BY <1>1, <1>2 DEF IntakeInv

\* No digest is withdrawn, neither from the quarantine nor from the store.
LEMMA DigestsStay ==
  ASSUME [IntakeNext]_vars
  PROVE  published \subseteq published' /\ registered \subseteq registered'
  BY DEF IntakeNext, vars, intakeVars, Crash, ReadDecisions, QueueMissing, Claim, Recover,
       Fetch, Register, Refused, Interrupted, EndClaim, CapturePersist, CaptureRegister

\* A consumer that is about to register has published, one that is about to complete has
\* registered.
LEMMA NextProgress == IntakeInv /\ [IntakeNext]_vars => Progress'
<1> SUFFICES ASSUME IntakeInv, [IntakeNext]_vars
             PROVE  Progress'
  OBVIOUS
<1>1. /\ IntakeTypeOK /\ TypeOK /\ IntakeTypeOK' /\ JobFence /\ Progress
      /\ published \subseteq published' /\ registered \subseteq registered'
      /\ registered \subseteq published
      /\ issued \in Nat
  BY NextIntakeTypeOK, DigestsStay
     DEF IntakeInv, IntakeTypeOK, TypeOK, QueueInv, RegisteredIsPublished
<1>2. ASSUME NEW w \in Consumer
      PROVE  /\ pc'[w] = "register" => Target(w)' \in published'
             /\ pc'[w] = "complete" => Target(w)' \in registered'
  <2>1. CASE pc'[w] = pc[w] /\ held'[w] = held[w]
    BY <1>1, <2>1 DEF Progress, Target
  <2>2. CASE Fetch(w) \/ Register(w)
    BY <1>1, <2>2 DEF Fetch, Register, Goto, Target, IntakeTypeOK
  <2>3. CASE pc'[w] \in {"idle", "fetch", "fail", "retry"}
    BY <2>3
  <2>4. ASSUME NEW v \in Consumer,
               \/ \E until \in 1..MaxTime : Claim(v, until)
               \/ Recover(v) \/ Fetch(v) \/ Register(v) \/ Refused(v)
               \/ Interrupted(v) \/ EndClaim(v)
        PROVE  \/ pc'[w] = pc[w] /\ held'[w] = held[w]
               \/ Fetch(w) \/ Register(w)
               \/ pc'[w] \in {"idle", "fetch", "fail", "retry"}
    <3>1. CASE v = w
      BY <1>1, <2>4, <3>1
         DEF Claim, Recover, Refused, Interrupted, EndClaim, Done, Goto, IntakeTypeOK,
             intakeVars
    <3>2. CASE v # w
      BY <1>1, <2>4, <3>2
         DEF Claim, Recover, Fetch, Register, Refused, Interrupted, EndClaim, Done,
             Goto, IntakeTypeOK, intakeVars
    <3> QED
      BY <3>1, <3>2
  <2>5. CASE Crash
    BY <2>3, <2>5 DEF Crash
  <2>6. CASE pc' = pc /\ held' = held
    BY <2>1, <2>6
  <2> QED
    BY <2>1, <2>2, <2>3, <2>4, <2>5, <2>6
       DEF IntakeNext, vars, intakeVars, ReadDecisions, QueueMissing, CapturePersist,
           CaptureRegister
<1>3. uploading' \subseteq published'
  BY <1>1 DEF Progress, IntakeNext, vars, intakeVars, Crash, ReadDecisions, QueueMissing,
       Claim, Recover, Fetch, Register, Refused, Interrupted, EndClaim, CapturePersist,
       CaptureRegister
<1> QED
  BY <1>2, <1>3 DEF Progress

\* A job is completed only by a consumer that has registered its artifact.
LEMMA NextCompleted == IntakeInv /\ [IntakeNext]_vars => CompletedIsRegistered'
<1> SUFFICES ASSUME IntakeInv, [IntakeNext]_vars, NEW j \in Job, state'[j] = "COMPLETED"
             PROVE  Sha[j] \in registered'
  BY DEF CompletedIsRegistered
<1>1. /\ IntakeTypeOK /\ TypeOK /\ Progress
      /\ registered \subseteq registered'
      /\ state[j] = "COMPLETED" => Sha[j] \in registered
  BY DigestsStay DEF IntakeInv, IntakeTypeOK, CompletedIsRegistered
<1>2. CASE state[j] = "COMPLETED"
  BY <1>1, <1>2
<1>3. ASSUME NEW w \in Consumer, pc[w] = "complete", Finish(held[w], "COMPLETED"),
             state[j] # "COMPLETED"
      PROVE  Sha[j] \in registered
  <2>1. held[w].job = j
    BY <1>1, <1>3, BusyHoldsClaim DEF Finish, TypeOK
  <2> QED
    BY <1>1, <1>3, <2>1 DEF Progress, Target
<1>4. ASSUME state[j] # "COMPLETED"
      PROVE  \E w \in Consumer : pc[w] = "complete" /\ Finish(held[w], "COMPLETED")
  <2>1. ASSUME NEW c, Retry(c)
        PROVE  FALSE
    BY <1>1, <1>4, <2>1 DEF Retry, TypeOK
  <2>2. ASSUME NEW c, Finish(c, "FAILED")
        PROVE  FALSE
    BY <1>1, <1>4, <2>2 DEF Finish, TypeOK
  <2>3. ASSUME NEW w \in Consumer, EndClaim(w)
        PROVE  pc[w] = "complete" /\ Finish(held[w], "COMPLETED")
    BY <1>4, <2>1, <2>2, <2>3 DEF EndClaim, queueVars
  <2>4. ASSUME NEW w \in Consumer, NEW until \in 1..MaxTime, Claim(w, until)
        PROVE  FALSE
    BY <1>4, <2>4 DEF Claim, ClaimNext
  <2>5. ASSUME NEW w \in Consumer, Recover(w)
        PROVE  FALSE
    BY <1>4, <2>5 DEF Recover, RecoverExpiredClaims
  <2>6. ~QueueMissing
    BY <1>4 DEF QueueMissing, DiscoverMany, Insert, queueVars
  <2>7. state' # state
    BY <1>4
  <2> QED
    BY <2>3, <2>4, <2>5, <2>6, <2>7
       DEF IntakeNext, vars, queueVars, Tick, Crash, ReadDecisions, Fetch, Register,
           Refused, Interrupted, CapturePersist, CaptureRegister
<1> QED
  BY <1>1, <1>2, <1>3, <1>4

\* Both entrances publish before they register.
LEMMA NextPublished == IntakeInv /\ [IntakeNext]_vars => RegisteredIsPublished'
<1> SUFFICES ASSUME IntakeInv, [IntakeNext]_vars
             PROVE  registered' \subseteq published'
  BY DEF RegisteredIsPublished
<1>1. registered \subseteq published /\ published \subseteq published' /\ Progress
  BY DigestsStay DEF IntakeInv, RegisteredIsPublished
<1>2. ASSUME NEW w \in Consumer, Register(w)
      PROVE  registered' \subseteq published
  BY <1>1, <1>2 DEF Register, Progress
<1>3. ASSUME NEW d \in Digest, CaptureRegister(d)
      PROVE  registered' \subseteq published
  BY <1>1, <1>3 DEF CaptureRegister, Progress
<1>4. CASE registered' = registered
  BY <1>1, <1>4
<1> QED
  BY <1>1, <1>2, <1>3, <1>4
     DEF IntakeNext, vars, intakeVars, Crash, ReadDecisions, QueueMissing, Claim, Recover,
         Fetch, Refused, Interrupted, EndClaim, CapturePersist

\* Nothing in the intake damages a row.
LEMMA NextUndamaged == damaged = {} /\ [IntakeNext]_vars => damaged' = {}
  BY DEF IntakeNext, vars, intakeVars, queueVars, Tick, Crash, ReadDecisions, QueueMissing,
       DiscoverMany, Insert, Claim, ClaimNext, Recover, RecoverExpiredClaims, Fetch,
       Register, Refused, Interrupted, EndClaim, Finish, Retry, CapturePersist,
       CaptureRegister

\* The inductive invariant of the intake.
THEOREM IntakeInvariant == IntakeSpec => []IntakeInv
<1>1. IntakeInv /\ [IntakeNext]_vars => IntakeInv'
  <2>1. IntakeInv /\ [IntakeNext]_vars => QueueInv'
    BY IntakeStepIsQueueStep, NextTypeOK, NextFence, NextBudget DEF IntakeInv, QueueInv
  <2> QED
    BY <2>1, NextIntakeTypeOK, NextProgress, NextCompleted, NextPublished, NextUndamaged
       DEF IntakeInv
<1> QED
  BY <1>1, InitIntake, PTL DEF IntakeSpec

\* A completed job has left its artifact in the verdict database, whatever crash or lost
\* lease came between discover_artifact and complete in run_once.
THEOREM CompletionMeansRegistration == IntakeSpec => []CompletedIsRegistered
<1>1. IntakeInv => CompletedIsRegistered
  BY DEF IntakeInv
<1> QED
  BY <1>1, IntakeInvariant, PTL

\* An artifact that the analysis can claim has its bytes in the quarantine, by run_once or
\* by the capture of an upload.
THEOREM PublishBeforeDiscover == IntakeSpec => []RegisteredIsPublished
<1>1. IntakeInv => RegisteredIsPublished
  BY DEF IntakeInv
<1> QED
  BY <1>1, IntakeInvariant, PTL

\* Only a consumer at the end of run_once ends a job, and only one whose claim holds the
\* lease.
LEMMA OnlyEndClaimEnds ==
  ASSUME IntakeInv, [IntakeNext]_vars, NEW j \in Job,
         state[j] \notin TerminalStates, state'[j] \in TerminalStates
  PROVE  \E w \in Consumer :
           /\ EndClaim(w) /\ HoldsLease(held[w]) /\ held[w].job = j
           /\ pc[w] \in {"complete", "fail", "retry"}
           /\ \/ pc[w] = "complete" /\ state'[j] = "COMPLETED"
              \/ pc[w] = "fail" /\ state'[j] = "FAILED"
              \/ pc[w] = "retry" /\ state'[j] = "FAILED" /\ GivesUp(held[w])
<1>1. TypeOK /\ damaged = {} /\ IntakeTypeOK
  BY DEF IntakeInv, IntakeTypeOK
<1>2. state' # state
  OBVIOUS
<1>3. ASSUME NEW w \in Consumer, NEW until \in 1..MaxTime, Claim(w, until)
      PROVE  FALSE
  <2>1. Rejected = {}
    BY <1>1 DEF Rejected
  <2> QED
    BY <1>3, <2>1 DEF Claim, ClaimNext, TerminalStates
<1>4. ASSUME NEW w \in Consumer, Recover(w)
      PROVE  FALSE
  BY <1>1, <1>4 DEF Recover, RecoverExpiredClaims, TerminalStates
<1>5. CASE QueueMissing
  BY <1>2, <1>5 DEF QueueMissing, DiscoverMany, Insert, queueVars, TerminalStates
<1>6. ASSUME NEW w \in Consumer, EndClaim(w)
      PROVE  /\ HoldsLease(held[w]) /\ held[w].job = j
             /\ pc[w] \in {"complete", "fail", "retry"}
             /\ \/ pc[w] = "complete" /\ state'[j] = "COMPLETED"
                \/ pc[w] = "fail" /\ state'[j] = "FAILED"
                \/ pc[w] = "retry" /\ state'[j] = "FAILED" /\ GivesUp(held[w])
  <2>1. pc[w] \in {"complete", "fail", "retry"}
    BY <1>6 DEF EndClaim
  <2>2. held[w].job \in Job
    BY <1>1, <2>1, BusyHoldsClaim
  <2>3. CASE pc[w] = "complete" /\ Finish(held[w], "COMPLETED")
    BY <1>1, <2>2, <2>3 DEF Finish, TypeOK, TerminalStates
  <2>4. CASE pc[w] = "fail" /\ Finish(held[w], "FAILED")
    BY <1>1, <2>2, <2>4 DEF Finish, TypeOK, TerminalStates
  <2>5. CASE pc[w] = "retry" /\ Retry(held[w])
    BY <1>1, <2>2, <2>5 DEF Retry, TypeOK, TerminalStates
  <2> QED
    BY <1>2, <1>6, <2>3, <2>4, <2>5 DEF EndClaim, queueVars
<1> QED
  BY <1>2, <1>3, <1>4, <1>5, <1>6
     DEF IntakeNext, vars, intakeVars, queueVars, Tick, Crash, ReadDecisions, Fetch,
         Register, Refused, Interrupted, CapturePersist, CaptureRegister

\* A job ends by the hand of the consumer that was given it last, for the cause that this
\* consumer met in run_once: no consumer that outlived its lease decides it, and retry
\* fails it only at the last attempt.
THEOREM LastConsumerEnds == IntakeSpec => EndedByItsLastConsumer
<1>1. IntakeInv /\ [IntakeNext]_vars =>
        \A j \in Job : state[j] \notin TerminalStates /\ state'[j] \in TerminalStates =>
          \E w \in Consumer : EndedBy(w, j)
  <2> SUFFICES ASSUME IntakeInv, [IntakeNext]_vars, NEW j \in Job,
                      state[j] \notin TerminalStates, state'[j] \in TerminalStates
               PROVE  \E w \in Consumer : EndedBy(w, j)
    OBVIOUS
  <2>1. PICK w \in Consumer :
               /\ HoldsLease(held[w]) /\ held[w].job = j
               /\ pc[w] \in {"complete", "fail", "retry"}
               /\ \/ pc[w] = "complete" /\ state'[j] = "COMPLETED"
                  \/ pc[w] = "fail" /\ state'[j] = "FAILED"
                  \/ pc[w] = "retry" /\ state'[j] = "FAILED" /\ GivesUp(held[w])
    BY OnlyEndClaimEnds
  <2>2. held[w] \in claims /\ held[w] # NoClaim
    BY <2>1, BusyHoldsClaim DEF IntakeInv, IntakeTypeOK
  <2>3. held[w].attempt = attempts[j]
    BY <2>1, <2>2 DEF HoldsLease, IntakeInv, QueueInv, JobFence
  <2>4. \A c \in claims : c.job = j => c.token <= held[w].token
    BY <2>1 DEF HoldsLease, IntakeInv, QueueInv, JobFence
  <2> QED
    BY <2>1, <2>2, <2>3, <2>4 DEF GivesUp, EndedBy
<1> QED
  BY <1>1, IntakeInvariant, PTL DEF IntakeSpec, EndedByItsLastConsumer

==============================================================================
