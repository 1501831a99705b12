----------------------------- MODULE PipelineProofs -----------------------------
(***************************************************************************)
(* Theorems about AnalysisPipeline, for every release of finitely many     *)
(* files, every set of threads and any number of faults.                   *)
(***************************************************************************)
EXTENDS AnalysisPipeline, FiniteSetTheorems, TLAPS

-----------------------------------------------------------------------------
(* Types.                                                                  *)

Busy == {"fetch", "complete", "prepare", "report"}

\* A thread at work has a file; an analysis has an artifact, and a bundle of one file
\* of the other kind at most.
AtWork ==
    \A t \in Threads :
        /\ pc[t] \in Busy => claim[t] \in Files
        /\ pc[t] \in {"prepare", "report"} => claim[t] \in Registered

PipelineTypeInv == TypeOK /\ AtWork

\* Nothing is listed and every thread is at the beginning of its cycle.
LEMMA InitTypeInv == Init => PipelineTypeInv
<1>1. 0 \in 0..MaxAttempts /\ 0 \in 0..MaxFaults
  BY PipelineAssumption
<1>2. 0 \in 0..Cardinality(Files)
  BY PipelineAssumption, FS_CardinalityType
<1> QED
  BY <1>1, <1>2, PipelineAssumption
     DEF Init, PipelineTypeInv, TypeOK, AtWork, JobStates, ItemStates, Steps, Busy

\* The order given to a new artifact is within range.
LEMMA RankInRange == Cardinality(Registered) \in 0..Cardinality(Files)
<1>1. Registered \in SUBSET Files
  BY DEF Registered
<1> QED
  BY <1>1, PipelineAssumption, FS_Subset, FS_CardinalityType

\* The three groups of variables, so that an operation is charged only with its own.
JobsOK ==
    /\ job \in [Files -> JobStates]
    /\ attempts \in [Files -> 0..MaxAttempts]
    /\ consumer \in [Files -> Threads \cup {Nobody}]
    /\ \A f \in Files : job[f] = "processing" <=> consumer[f] # Nobody
    /\ overdue \subseteq {f \in Files : job[f] = "processing"}
    /\ before \subseteq Files \X Files

ItemsOK ==
    /\ item \in [Files -> ItemStates]
    /\ rank \in [Files -> 0..Cardinality(Files)]
    /\ analyst \in [Files -> Threads \cup {Nobody}]
    /\ \A f \in Files : item[f] = "scanning" <=> analyst[f] # Nobody
    /\ lapsed \subseteq {f \in Files : item[f] = "scanning"}
    /\ compared \subseteq SUBSET Files

ThreadsOK ==
    /\ pc \in [Threads -> Steps]
    /\ claim \in [Threads -> Files \cup {Nobody}]
    /\ bundle \in [Threads -> SUBSET Files]
    /\ \A t \in Threads : pc[t] \in Busy => claim[t] \in Files

\* The types are those of the groups.
LEMMA TypesByGroup ==
  TypeOK /\ (\A t \in Threads : pc[t] \in Busy => claim[t] \in Files)
    <=> JobsOK /\ ItemsOK /\ ThreadsOK /\ faults \in 0..MaxFaults
  BY DEF TypeOK, JobsOK, ItemsOK, ThreadsOK

\* Listing, claiming, releasing and recovering jobs keeps the job columns.
LEMMA NextJobsOK == JobsOK /\ ThreadsOK /\ [Next]_vars => JobsOK'
<1> SUFFICES ASSUME JobsOK, ThreadsOK, [Next]_vars
             PROVE  JobsOK'
  OBVIOUS
<1> USE DEF JobsOK
<1>1. CASE UNCHANGED jobVars
  BY <1>1 DEF jobVars
<1>2. CASE List
  BY <1>2 DEF List, Queue, JobStates
<1>3. ASSUME NEW f \in Files, DelayEnds(f)
      PROVE  JobsOK'
  BY <1>3 DEF DelayEnds, Queue, JobStates
<1>4. ASSUME NEW f \in Files, JobLeaseEnds(f)
      PROVE  JobsOK'
  BY <1>4 DEF JobLeaseEnds
<1>5. ASSUME NEW t \in Threads, RecoverJobs(t)
      PROVE  JobsOK'
  BY <1>5 DEF RecoverJobs, Queue, JobStates
<1>6. ASSUME NEW t \in Threads, ClaimJob(t)
      PROVE  JobsOK'
  <2>1. PICK f \in Files :
               /\ job[f] = "pending" /\ before' \subseteq before
               /\ job' = [job EXCEPT ![f] = "processing"]
               /\ attempts' = [attempts EXCEPT ![f] = IF @ < MaxAttempts THEN @ + 1 ELSE @]
               /\ consumer' = [consumer EXCEPT ![f] = t]
    BY <1>6 DEF ClaimJob, IsFirst
  <2>2. MaxAttempts \in Nat /\ t # Nobody
    BY PipelineAssumption
  <2>3. attempts' \in [Files -> 0..MaxAttempts]
    BY <2>1, <2>2
  <2>4. overdue' = overdue
    BY <1>6 DEF ClaimJob
  <2> QED
    BY <2>1, <2>2, <2>3, <2>4 DEF JobStates
<1>7. ASSUME NEW t \in Threads, pc[t] \in Busy,
             NEW result \in {"failed", "delayed", "completed"}, Release(t, result)
      PROVE  JobsOK'
  <2>1. claim[t] \in Files
    BY <1>7 DEF ThreadsOK
  <2>2. CASE UNCHANGED jobVars
    BY <1>1, <2>2
  <2>3. CASE ~UNCHANGED jobVars
    <3>1. /\ job[claim[t]] = "processing" /\ claim[t] \notin overdue
          /\ job' = [job EXCEPT ![claim[t]] = result]
          /\ consumer' = [consumer EXCEPT ![claim[t]] = Nobody]
          /\ UNCHANGED <<attempts, overdue, before>>
      BY <1>7, <2>3 DEF Release
    <3> QED
      BY <2>1, <3>1 DEF JobStates
  <2> QED
    BY <2>2, <2>3
<1>8. ASSUME NEW t \in Threads, FetchRefused(t) \/ FetchFailed(t) \/ CompleteJob(t)
      PROVE  JobsOK'
  <2>1. pc[t] \in Busy
    BY <1>8 DEF FetchRefused, FetchFailed, CompleteJob, Busy
  <2>2. \E result \in {"failed", "delayed", "completed"} : Release(t, result)
    BY <1>8, Zenon DEF FetchRefused, FetchFailed, CompleteJob
  <2> QED
    BY <1>7, <2>1, <2>2
<1> QED
  BY <1>1, <1>2, <1>3, <1>4, <1>5, <1>6, <1>8
     DEF Next, vars, Cycle, Upload, ItemLeaseEnds, RecoverItems, NoJob, Fetched, ClaimItem,
         NoItem, Prepare, Report, Interrupted

\* Registering, claiming, reporting and recovering artifacts keeps the artifact columns.
LEMMA NextItemsOK == ItemsOK /\ ThreadsOK /\ [Next]_vars => ItemsOK'
<1> SUFFICES ASSUME ItemsOK, ThreadsOK, [Next]_vars
             PROVE  ItemsOK'
  OBVIOUS
<1> USE DEF ItemsOK
<1>1. CASE UNCHANGED itemVars
  BY <1>1 DEF itemVars
<1>2. ASSUME NEW f \in Files, Register(f)
      PROVE  ItemsOK'
  <2>1. CASE f \in Registered
    BY <1>1, <1>2, <2>1 DEF Register
  <2>2. CASE f \notin Registered
    <3>1. /\ item[f] = "absent"
          /\ item' = [item EXCEPT ![f] = "discovered"]
          /\ rank' = [rank EXCEPT ![f] = Cardinality(Registered)]
          /\ UNCHANGED <<analyst, lapsed, compared>>
      BY <1>2, <2>2 DEF Register, Registered
    <3>2. rank' \in [Files -> 0..Cardinality(Files)]
      BY <3>1, RankInRange
    <3> QED
      BY <3>1, <3>2 DEF ItemStates
  <2> QED
    BY <2>1, <2>2
<1>3. ASSUME NEW f \in Files, Upload(f)
      PROVE  ItemsOK'
  BY <1>2, <1>3 DEF Upload
<1>4. ASSUME NEW t \in Threads, Fetched(t)
      PROVE  ItemsOK'
  BY <1>2, <1>4 DEF Fetched, ThreadsOK, Busy
<1>5. ASSUME NEW f \in Files, ItemLeaseEnds(f)
      PROVE  ItemsOK'
  BY <1>5 DEF ItemLeaseEnds
<1>6. ASSUME NEW t \in Threads, RecoverItems(t)
      PROVE  ItemsOK'
  BY <1>6 DEF RecoverItems, ItemStates
<1>7. ASSUME NEW t \in Threads, ClaimItem(t)
      PROVE  ItemsOK'
  <2>1. t # Nobody
    BY PipelineAssumption
  <2> QED
    BY <1>7, <2>1 DEF ClaimItem, IsNext, ItemStates
<1>8. ASSUME NEW t \in Threads, Report(t)
      PROVE  ItemsOK'
  <2>1. claim[t] \in Files /\ bundle[t] \subseteq Files
    BY <1>8 DEF Report, ThreadsOK, Busy
  <2>2. CASE UNCHANGED itemVars
    BY <1>1, <2>2
  <2>3. CASE ~UNCHANGED itemVars
    <3>1. PICK result \in {"verdict", "error"} :
                 /\ item' = [item EXCEPT ![claim[t]] = result]
                 /\ compared' = IF result = "error" THEN compared
                                ELSE compared \cup {{claim[t], g} : g \in bundle[t]}
      BY <1>8, <2>3 DEF Report
    <3>2. /\ item[claim[t]] = "scanning" /\ claim[t] \notin lapsed
          /\ analyst' = [analyst EXCEPT ![claim[t]] = Nobody]
          /\ UNCHANGED <<rank, lapsed>>
      BY <1>8, <2>3 DEF Report, HoldsItem
    <3>3. compared' \subseteq SUBSET Files
      BY <2>1, <3>1
    <3> QED
      BY <2>1, <3>1, <3>2, <3>3 DEF ItemStates
  <2> QED
    BY <2>2, <2>3
<1> QED
  BY <1>1, <1>3, <1>4, <1>5, <1>6, <1>7, <1>8
     DEF Next, vars, Cycle, List, DelayEnds, JobLeaseEnds, RecoverJobs, ClaimJob, NoJob,
         FetchRefused, FetchFailed, CompleteJob, NoItem, Prepare, Interrupted

\* A thread starts work with a file: the one it claims, kept until the end of its cycle.
LEMMA NextThreadsOK == ItemsOK /\ ThreadsOK /\ [Next]_vars => ThreadsOK'
<1> SUFFICES ASSUME ItemsOK, ThreadsOK, [Next]_vars
             PROVE  ThreadsOK'
  OBVIOUS
<1> USE DEF ThreadsOK, Busy, Steps
<1>1. CASE UNCHANGED threadVars
  BY <1>1 DEF threadVars
<1>2. ASSUME NEW t \in Threads, EndCycle(t)
      PROVE  ThreadsOK'
  BY <1>2 DEF EndCycle, Goto
<1>3. ASSUME NEW t \in Threads, RecoverJobs(t) \/ RecoverItems(t) \/ NoJob(t)
      PROVE  ThreadsOK'
  BY <1>3 DEF RecoverJobs, RecoverItems, NoJob, Goto
<1>4. ASSUME NEW t \in Threads, Fetched(t)
      PROVE  ThreadsOK'
  BY <1>4 DEF Fetched, Goto
<1>5. ASSUME NEW t \in Threads, ClaimJob(t) \/ ClaimItem(t)
      PROVE  ThreadsOK'
  <2>1. PICK f \in Files : claim' = [claim EXCEPT ![t] = f]
    BY <1>5 DEF ClaimJob, ClaimItem
  <2>2. /\ \E step \in {"fetch", "prepare"} : pc' = [pc EXCEPT ![t] = step]
        /\ bundle' = bundle
    BY <1>5 DEF ClaimJob, ClaimItem, Goto
  <2> QED
    BY <2>1, <2>2
<1>6. ASSUME NEW t \in Threads, Prepare(t)
      PROVE  ThreadsOK'
  <2>1. bundle' = bundle \/ \E g \in Files : bundle' = [bundle EXCEPT ![t] = {g}]
    BY <1>6 DEF Prepare, Counterparts, Registered
  <2>2. pc[t] = "prepare" /\ pc' = [pc EXCEPT ![t] = "report"] /\ claim' = claim
    BY <1>6 DEF Prepare, Goto
  <2> QED
    BY <2>1, <2>2
<1> QED
  BY <1>1, <1>2, <1>3, <1>4, <1>5, <1>6
     DEF Next, vars, Cycle, List, Upload, DelayEnds, JobLeaseEnds, ItemLeaseEnds,
         FetchRefused, FetchFailed, CompleteJob, NoItem, Report, Interrupted

\* No step takes more faults than there are.
LEMMA NextFaultsOK ==
  faults \in 0..MaxFaults /\ [Next]_vars => faults' \in 0..MaxFaults
<1>1. MaxFaults \in Nat
  BY PipelineAssumption
<1>2. [Next]_vars => UNCHANGED faults \/ OutOfTurn
  BY DEF Next, vars, Cycle, List, Upload, DelayEnds, JobLeaseEnds, ItemLeaseEnds, RecoverJobs,
         RecoverItems, ClaimJob, NoJob, Fetched, FetchRefused, FetchFailed, CompleteJob,
         ClaimItem, NoItem, Prepare, Report, Interrupted
<1> QED
  BY <1>1, <1>2 DEF OutOfTurn

\* How a step of the pipeline moves one artifact: it is added; claimed; recovered; or
\* settled, by the thread whose claim it is.
Recorded(f) ==
    \E t \in Threads :
        /\ pc[t] = "report" /\ claim[t] = f /\ item[f] = "scanning"
        /\ item'[f] \in {"verdict", "error"}
        /\ item'[f] = "verdict" => \A g \in bundle[t] : {f, g} \in compared'

LEMMA ItemSteps ==
  ASSUME ItemsOK, ThreadsOK, [Next]_vars, NEW f \in Files
  PROVE  /\ \/ item'[f] = item[f]
            \/ item[f] = "absent" /\ item'[f] = "discovered"
            \/ item[f] = "discovered" /\ item'[f] = "scanning"
            \/ item[f] = "scanning" /\ item'[f] = "discovered"
            \/ Recorded(f)
         /\ compared \subseteq compared'
<1> USE DEF ItemsOK
<1>1. CASE UNCHANGED itemVars
  BY <1>1 DEF itemVars
<1>2. ASSUME NEW e \in Files, Register(e)
      PROVE  /\ item'[f] = item[f] \/ (item[f] = "absent" /\ item'[f] = "discovered")
             /\ compared' = compared
  BY <1>2 DEF Register, Registered, itemVars
<1>3. CASE \E e \in Files : Upload(e)
  BY <1>2, <1>3 DEF Upload
<1>4. CASE \E t \in Threads : Fetched(t)
  BY <1>2, <1>4 DEF Fetched, ThreadsOK, Busy
<1>5. CASE \E e \in Files : ItemLeaseEnds(e)
  BY <1>5 DEF ItemLeaseEnds
<1>6. CASE \E t \in Threads : RecoverItems(t)
  BY <1>6 DEF RecoverItems
<1>7. CASE \E t \in Threads : ClaimItem(t)
  BY <1>7 DEF ClaimItem, IsNext
<1>8. ASSUME NEW t \in Threads, Report(t)
      PROVE  (item'[f] = item[f] \/ Recorded(f)) /\ compared \subseteq compared'
  <2>1. CASE UNCHANGED itemVars
    BY <2>1 DEF itemVars
  <2>2. CASE ~UNCHANGED itemVars
    <3>1. PICK result \in {"verdict", "error"} :
                 /\ item' = [item EXCEPT ![claim[t]] = result]
                 /\ compared' = IF result = "error" THEN compared
                                ELSE compared \cup {{claim[t], g} : g \in bundle[t]}
      BY <1>8, <2>2 DEF Report
    <3>2. pc[t] = "report" /\ item[claim[t]] = "scanning"
      BY <1>8, <2>2 DEF Report, HoldsItem
    <3>3. compared \subseteq compared'
      BY <3>1
    <3>4. CASE claim[t] = f
      <4>1. item'[f] = result
        BY <3>1, <3>4
      <4>2. result = "verdict" => \A g \in bundle[t] : {f, g} \in compared'
        BY <3>1, <3>4
      <4> QED
        BY <3>2, <3>3, <3>4, <4>1, <4>2 DEF Recorded
    <3>5. CASE claim[t] # f
      BY <3>1, <3>3, <3>5
    <3> QED
      BY <3>4, <3>5
  <2> QED
    BY <2>1, <2>2
<1>9. CASE \E t \in Threads : Report(t)
  BY <1>8, <1>9
<1> QED
  BY <1>1, <1>3, <1>4, <1>5, <1>6, <1>7, <1>9
     DEF Next, vars, Cycle, List, DelayEnds, JobLeaseEnds, RecoverJobs, ClaimJob, NoJob,
         FetchRefused, FetchFailed, CompleteJob, NoItem, Prepare, Interrupted

\* How a step moves one thread through its cycle.
LEMMA ThreadSteps ==
  ASSUME ThreadsOK, [Next]_vars, NEW t \in Threads
  PROVE  \/ pc'[t] = pc[t] /\ claim'[t] = claim[t] /\ bundle'[t] = bundle[t]
         \/ pc'[t] \notin {"prepare", "report"}
         \/ ClaimItem(t) /\ pc'[t] = "prepare"
         \/ Prepare(t) /\ pc[t] = "prepare" /\ pc'[t] = "report" /\ claim'[t] = claim[t]
<1> USE DEF ThreadsOK
<1>1. CASE UNCHANGED threadVars
  BY <1>1 DEF threadVars
<1>2. ASSUME NEW u \in Threads, EndCycle(u)
      PROVE  \/ pc'[t] = pc[t] /\ claim'[t] = claim[t] /\ bundle'[t] = bundle[t]
             \/ pc'[t] \notin {"prepare", "report"}
  BY <1>2 DEF EndCycle, Goto
<1>3. ASSUME NEW u \in Threads,
             RecoverJobs(u) \/ RecoverItems(u) \/ NoJob(u) \/ Fetched(u) \/ ClaimJob(u)
      PROVE  \/ pc'[t] = pc[t] /\ claim'[t] = claim[t] /\ bundle'[t] = bundle[t]
             \/ pc'[t] \notin {"prepare", "report"}
  BY <1>3 DEF RecoverJobs, RecoverItems, NoJob, Fetched, ClaimJob, Goto
<1>4. ASSUME NEW u \in Threads, ClaimItem(u)
      PROVE  \/ pc'[t] = pc[t] /\ claim'[t] = claim[t] /\ bundle'[t] = bundle[t]
             \/ ClaimItem(t) /\ pc'[t] = "prepare"
  BY <1>4 DEF ClaimItem, Goto
<1>5. ASSUME NEW u \in Threads, Prepare(u)
      PROVE  \/ pc'[t] = pc[t] /\ claim'[t] = claim[t] /\ bundle'[t] = bundle[t]
             \/ Prepare(t) /\ pc[t] = "prepare" /\ pc'[t] = "report" /\ claim'[t] = claim[t]
  BY <1>5 DEF Prepare, Goto
<1>6. CASE \E u \in Threads :
              RecoverJobs(u) \/ RecoverItems(u) \/ NoJob(u) \/ Fetched(u) \/ ClaimJob(u)
  BY <1>3, <1>6
<1>7. CASE \E u \in Threads : ClaimItem(u)
  BY <1>4, <1>7
<1>8. CASE \E u \in Threads : Prepare(u)
  BY <1>5, <1>8
<1>9. CASE \E u \in Threads : EndCycle(u)
  BY <1>2, <1>9
<1> QED
  BY <1>1, <1>6, <1>7, <1>8, <1>9
     DEF Next, vars, Cycle, List, Upload, DelayEnds, JobLeaseEnds, ItemLeaseEnds,
         FetchRefused, FetchFailed, CompleteJob, NoItem, Report, Interrupted

\* An artifact, once registered, stays.
LEMMA RegisteredGrows ==
  ItemsOK /\ ThreadsOK /\ [Next]_vars => Registered \subseteq Registered'
  BY ItemSteps DEF Registered, Recorded

\* Every step keeps the types.
LEMMA NextTypeInv == PipelineTypeInv /\ [Next]_vars => PipelineTypeInv'
<1> SUFFICES ASSUME PipelineTypeInv, [Next]_vars
             PROVE  PipelineTypeInv'
  OBVIOUS
<1>1. JobsOK /\ ItemsOK /\ ThreadsOK /\ faults \in 0..MaxFaults
  BY TypesByGroup DEF PipelineTypeInv, AtWork
<1>2. JobsOK' /\ ItemsOK' /\ ThreadsOK' /\ faults' \in 0..MaxFaults
  BY <1>1, NextJobsOK, NextItemsOK, NextThreadsOK, NextFaultsOK
<1>3. TypeOK' /\ (\A t \in Threads : pc'[t] \in Busy => claim'[t] \in Files)
  BY <1>2 DEF TypeOK, JobsOK, ItemsOK, ThreadsOK
<1>4. ASSUME NEW t \in Threads, pc'[t] \in {"prepare", "report"}
      PROVE  claim'[t] \in Registered'
  <2>1. Registered \subseteq Registered'
    BY <1>1, RegisteredGrows
  <2>2. CASE pc[t] \in {"prepare", "report"} /\ claim'[t] = claim[t]
    BY <2>1, <2>2 DEF PipelineTypeInv, AtWork
  <2>3. CASE ClaimItem(t)
    <3>1. PICK f \in Files : item[f] = "discovered" /\ claim' = [claim EXCEPT ![t] = f]
      BY <2>3 DEF ClaimItem, IsNext
    <3> QED
      BY <1>1, <2>1, <3>1 DEF ThreadsOK, Registered
  <2> QED
    BY <1>1, <1>4, <2>2, <2>3, ThreadSteps
<1> QED
  BY <1>3, <1>4 DEF PipelineTypeInv, AtWork

\* Every state is well typed: in particular a job is in processing exactly when its row
\* carries a lease, and an artifact is in scanning exactly when its row does, whatever
\* leases end and threads are interrupted (worker/pipeline.py, worker/runtime.py).
THEOREM TypeCorrect == Spec => []TypeOK
<1>1. PipelineTypeInv => TypeOK
  BY DEF PipelineTypeInv
<1> QED
  BY <1>1, InitTypeInv, NextTypeInv, PTL DEF Spec

-----------------------------------------------------------------------------
(* The comparison of a release.                                            *)

\* A verdict of f is on record that no comparison stands behind.
BlindOnRecord(f) == item[f] = "verdict" /\ \A pair \in compared : f \notin pair

\* An analysis of f is prepared that will compare f with nothing.
BlindInHand(f) == \E t \in Threads : pc[t] = "report" /\ claim[t] = f /\ bundle[t] = {}

Blind(f) == BlindOnRecord(f) \/ BlindInHand(f)

\* Files of the two kinds are never both without a comparison, on record or in hand:
\* the second preparation has found the first file, which was registered.
NotBothBlind == \A s \in Sdists, w \in Files \ Sdists : ~(Blind(s) /\ Blind(w))

ReleaseInv == PipelineTypeInv /\ NotBothBlind

\* An analysis has only been prepared of an artifact that exists.
LEMMA BlindIsRegistered ==
  ASSUME PipelineTypeInv, NEW f \in Files, Blind(f)
  PROVE  f \in Registered
  BY DEF PipelineTypeInv, AtWork, Blind, BlindOnRecord, BlindInHand, Registered

\* Only a preparation that finds no file of the other kind makes a file blind.
LEMMA BlindSteps ==
  ASSUME PipelineTypeInv, [Next]_vars, NEW f \in Files, Blind(f)', ~Blind(f)
  PROVE  Counterparts(f) = {} /\ item' = item
<1>1. ItemsOK /\ ThreadsOK
  BY TypesByGroup DEF PipelineTypeInv, AtWork
<1>2. CASE BlindOnRecord(f)'
  <2>1. compared \subseteq compared' /\ item'[f] = "verdict"
    BY <1>1, <1>2, ItemSteps DEF BlindOnRecord
  <2>2. item[f] # "verdict"
    BY <1>2, <2>1 DEF Blind, BlindOnRecord
  <2>3. PICK t \in Threads :
               /\ pc[t] = "report" /\ claim[t] = f
               /\ \A g \in bundle[t] : {f, g} \in compared'
    BY <1>1, <2>1, <2>2, ItemSteps DEF Recorded
  <2>4. bundle[t] # {}
    BY <2>3 DEF Blind, BlindInHand
  <2> QED
    BY <1>2, <2>3, <2>4 DEF BlindOnRecord
<1>3. CASE BlindInHand(f)'
  <2>1. PICK t \in Threads : pc'[t] = "report" /\ claim'[t] = f /\ bundle'[t] = {}
    BY <1>3 DEF BlindInHand
  <2>2. ~(pc[t] = "report" /\ claim[t] = f /\ bundle[t] = {})
    BY DEF Blind, BlindInHand
  <2>3. Prepare(t) /\ claim[t] = f
    BY <1>1, <2>1, <2>2, ThreadSteps
  <2>4. item' = item
    BY <2>3 DEF Prepare, itemVars
  <2>5. Counterparts(f) = {}
    <3>1. ASSUME NEW g, bundle' = [bundle EXCEPT ![t] = {g}]
          PROVE  FALSE
      BY <1>1, <2>1, <3>1 DEF ThreadsOK
    <3> QED
      BY <2>3, <3>1 DEF Prepare
  <2> QED
    BY <2>4, <2>5
<1> QED
  BY <1>2, <1>3 DEF Blind

\* Every step keeps the release from being blind on both sides.
LEMMA NextReleaseInv == ReleaseInv /\ [Next]_vars => ReleaseInv'
<1> SUFFICES ASSUME ReleaseInv, [Next]_vars
             PROVE  ReleaseInv'
  OBVIOUS
<1>1. PipelineTypeInv /\ PipelineTypeInv' /\ NotBothBlind
  BY NextTypeInv DEF ReleaseInv
\* Two files of different kinds: if one becomes blind, the other is not even registered.
<1>2. ASSUME NEW f \in Files, NEW g \in Files, (f \in Sdists) # (g \in Sdists),
             Blind(f)', Blind(g)', ~Blind(f)
      PROVE  FALSE
  <2>1. Counterparts(f) = {} /\ item' = item
    BY <1>1, <1>2, BlindSteps
  <2>2. g \in Registered'
    <3>1. pc' \in [Threads -> Steps]
      BY <1>1 DEF PipelineTypeInv, TypeOK
    <3> QED
      BY <1>1, <1>2 DEF PipelineTypeInv, AtWork, Blind, BlindOnRecord, BlindInHand, Registered
  <2> QED
    BY <1>2, <2>1, <2>2 DEF Counterparts, Registered
<1>3. ASSUME NEW s \in Sdists, NEW w \in Files \ Sdists, Blind(s)', Blind(w)'
      PROVE  FALSE
  <2>1. s \in Files
    BY PipelineAssumption
  <2>2. Blind(s) /\ Blind(w)
    BY <1>2, <1>3, <2>1
  <2> QED
    BY <1>1, <2>2 DEF NotBothBlind
<1> QED
  BY <1>1, <1>3 DEF ReleaseInv, NotBothBlind

\* When a source distribution and a wheel of a release both have a verdict, an analysis
\* compared one of them: for any number of files, threads, lost leases and interruptions,
\* although a preparation looks at the release before its verdict is recorded and two may
\* overlap (worker/preparer.py, worker/pipeline.py).
THEOREM LastAnalysisCompares == Spec => []ReleaseIsCompared
<1>1. Init => ReleaseInv
  BY InitTypeInv, PipelineAssumption
     DEF Init, ReleaseInv, NotBothBlind, Blind, BlindOnRecord, BlindInHand
<1>2. ReleaseInv => ReleaseIsCompared
  BY DEF ReleaseInv, NotBothBlind, Blind, BlindOnRecord, ReleaseIsCompared
<1> QED
  BY <1>1, <1>2, NextReleaseInv, PTL DEF Spec

=============================================================================
