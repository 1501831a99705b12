------------------------- MODULE VerdictStoreProofs -------------------------
(***************************************************************************)
(* Theorems about the artifact store for every set of artifacts, workers   *)
(* and releases and every bound.  The order is: types, validity of what is *)
(* persisted, the fence, the audit trail, the refinement of FencedQueue.   *)
(***************************************************************************)
EXTENDS VerdictStore, TLAPS

-----------------------------------------------------------------------------
(* Type correctness. *)

\* The initial database is well typed.
LEMMA InitTypeOK == Init => TypeOK
  BY DEF Init, TypeOK, ArtifactStates, Leases, NoLease, VerdictStates, Overrides,
         NoOverride, BaselineMarks, Claims, Events, NoEvent, ManualDecisions

\* The two decisions that the rule derives are manual decisions in type.
LEMMA DecisionType ==
  ASSUME TypeOK, NEW a \in Artifact
  PROVE  /\ FallbackDecision(a) \in ManualDecisions
         /\ EffectiveDecision(a) \in ManualDecisions
  BY DEF TypeOK, FallbackDecision, EffectiveDecision, OverrideActive, Overrides,
         NoOverride, ManualDecisions

\* An operation keeps every variable in its type.
LEMMA NextTypeOK == TypeOK /\ [Next]_vars => TypeOK'
<1> SUFFICES ASSUME TypeOK, [Next]_vars
             PROVE  TypeOK'
  OBVIOUS
<1> USE ConstantsAssumption DEF ConstantsAssumption, TypeOK
<1>1. CASE Tick
  BY <1>1 DEF Tick
<1>2. ASSUME NEW a \in Artifact, NEW r \in Release, NEW at \in 0..clock,
             DiscoverArtifact(a, r, at)
      PROVE  TypeOK'
  BY <1>2 DEF DiscoverArtifact, Event, Events, AuditActions, ManualDecisions,
              ArtifactStates
<1>3. ASSUME NEW w \in Worker, NEW a \in Artifact, NEW until \in Time,
             ClaimNext(w, a, until)
      PROVE  TypeOK'
  BY <1>3 DEF ClaimNext, Audit, Event, Events, AuditActions, ManualDecisions,
              ArtifactStates, Leases, Claims, Time
<1>4. ASSUME NEW now \in 0..clock, RecoverExpiredClaims(now)
      PROVE  TypeOK'
  BY <1>4 DEF RecoverExpiredClaims, Event, Events, AuditActions,
              ManualDecisions, ArtifactStates, Leases, NoLease
<1>5. ASSUME NEW c \in claims, NEW decision \in VerdictStates, NEW until \in Time,
             RecordVerdict(c, decision, until)
      PROVE  TypeOK'
  <2> DEFINE a == c.artifact
             new == IF decision = "ALLOW" THEN "ALLOW" ELSE "DENY"
             e == Event("artifact.verdict_recorded", "DENY", new, clock)
  <2>1. a \in Artifact /\ c.token \in Nat
    BY DEF Claims
  <2>2. CooldownAfter(a, until) \in Nat
    <3>1. cooldown[a] \in Nat
      BY <2>1
    <3>2. until \in Nat
      BY DEF Time
    <3>3. QED
      BY <3>1, <3>2 DEF CooldownAfter
  <2>3. e \in Events
    BY DEF Event, Events, AuditActions, ManualDecisions
  <2>4. NoLease \in Leases
    BY DEF NoLease, Leases
  <2>5. trail' = [trail EXCEPT ![a] = e]
    BY <1>5 DEF RecordVerdict, Audit
  <2>6. decision \in ArtifactStates
    BY DEF ArtifactStates, TerminalStates
  <2> HIDE DEF e, a
  <2>7. QED
    BY <1>5, <2>1, <2>2, <2>3, <2>4, <2>5, <2>6 DEF RecordVerdict, a
<1>6. ASSUME NEW c \in claims, MarkAnalysisError(c)
      PROVE  TypeOK'
  BY <1>6 DEF MarkAnalysisError, Audit, Event, Events, AuditActions,
              ManualDecisions, ArtifactStates, TerminalStates, Leases, NoLease,
              Claims
<1>7. ASSUME NEW a \in Artifact, NEW decision \in ManualDecisions,
             NEW expires \in Time \cup {Never},
             SetManualOverride(a, decision, expires)
      PROVE  TypeOK'
  BY <1>7, DecisionType DEF SetManualOverride, Audit, Event, Events,
              AuditActions, Overrides, Time, Never
<1>8. ASSUME NEW a \in Artifact, RevokeManualOverride(a)
      PROVE  TypeOK'
  BY <1>8, DecisionType DEF RevokeManualOverride, Audit, Event, Events,
              AuditActions, Overrides
<1>9. ASSUME NEW a \in Artifact, RequestRescan(a)
      PROVE  TypeOK'
  BY <1>9, DecisionType DEF RequestRescan, Audit, Event, Events, AuditActions,
              Overrides, ManualDecisions, ArtifactStates, Leases, NoLease
<1>10. ASSUME NEW a \in Artifact, NEW mark \in {"enabled", "disabled"},
              SetBaselineEligibility(a, mark)
       PROVE  TypeOK'
  BY <1>10, DecisionType DEF SetBaselineEligibility, Audit, Event, Events,
              AuditActions, BaselineMarks
<1>11. CASE UNCHANGED vars
  BY <1>11 DEF vars
<1>12. QED
  BY <1>1, <1>2, <1>3, <1>4, <1>5, <1>6, <1>7, <1>8, <1>9, <1>10, <1>11 DEF Next

\* Every reachable state of the store is well typed.
THEOREM TypeCorrect == Spec => []TypeOK
  BY InitTypeOK, NextTypeOK, PTL DEF Spec


-----------------------------------------------------------------------------
(* What is persisted is always accepted by validate_persisted_state. *)

\* The empty database is valid.
LEMMA InitValid == Init => PersistedStateValid
<1> SUFFICES ASSUME Init, NEW a \in Artifact
             PROVE  ValidPersistedState(a)
  BY DEF PersistedStateValid
<1>1. state[a] = "MISSING" /\ lease[a] = NoLease /\ lastError[a] = FALSE
      /\ override[a] = NoOverride
  BY DEF Init
<1>2. ValidLease(a) /\ ValidVerdict(a) /\ ValidOverride(a)
  BY <1>1 DEF ValidLease, ValidVerdict, ValidOverride, VerdictStates
<1>3. lastError[a] <=> state[a] = "ERROR"
  BY <1>1
<1>4. QED
  BY <1>2, <1>3 DEF ValidPersistedState

\* An operation on a valid row leaves a valid row.
LEMMA NextValid ==
  TypeOK /\ PersistedStateValid /\ [Next]_vars => PersistedStateValid'
<1> SUFFICES ASSUME TypeOK, PersistedStateValid, [Next]_vars, NEW b \in Artifact
             PROVE  ValidPersistedState(b)'
  BY DEF PersistedStateValid
<1>v. ValidPersistedState(b)
  BY DEF PersistedStateValid
<1>s. VerdictStates \subseteq TerminalStates /\ "ERROR" \in TerminalStates
      /\ "DISCOVERED" \notin TerminalStates /\ "SCANNING" \notin TerminalStates
      /\ "ERROR" \notin VerdictStates /\ "MISSING" \notin TerminalStates
  BY DEF TerminalStates, VerdictStates
<1> USE DEF ValidPersistedState, ValidLease, ValidVerdict, ValidOverride
<1>1. CASE Tick
  BY <1>1, <1>v DEF Tick
<1>2. ASSUME NEW a \in Artifact, NEW r \in Release, NEW at \in 0..clock,
             DiscoverArtifact(a, r, at)
      PROVE  ValidPersistedState(b)'
  BY <1>2, <1>v, <1>s DEF DiscoverArtifact, TypeOK
<1>3. ASSUME NEW w \in Worker, NEW a \in Artifact, NEW until \in Time,
             ClaimNext(w, a, until)
      PROVE  ValidPersistedState(b)'
  BY <1>3, <1>v, <1>s, ConstantsAssumption
     DEF ConstantsAssumption, ClaimNext, OldestDiscovered, TypeOK
<1>4. ASSUME NEW now \in 0..clock, RecoverExpiredClaims(now)
      PROVE  ValidPersistedState(b)'
  BY <1>4, <1>v, <1>s DEF RecoverExpiredClaims, Expired, TypeOK
<1>5. ASSUME NEW c \in claims, NEW decision \in VerdictStates, NEW until \in Time,
             RecordVerdict(c, decision, until)
      PROVE  ValidPersistedState(b)'
  BY <1>5, <1>v, <1>s DEF RecordVerdict, HoldsLease, TypeOK, VerdictStates
<1>6. ASSUME NEW c \in claims, MarkAnalysisError(c)
      PROVE  ValidPersistedState(b)'
  BY <1>6, <1>v, <1>s DEF MarkAnalysisError, HoldsLease, TypeOK
<1>7. ASSUME NEW a \in Artifact, NEW decision \in ManualDecisions,
             NEW expires \in Time \cup {Never},
             SetManualOverride(a, decision, expires)
      PROVE  ValidPersistedState(b)'
  BY <1>7, <1>v, <1>s DEF SetManualOverride, TypeOK
<1>8. ASSUME NEW a \in Artifact, RevokeManualOverride(a)
      PROVE  ValidPersistedState(b)'
  BY <1>8, <1>v, <1>s DEF RevokeManualOverride, TypeOK
<1>9. ASSUME NEW a \in Artifact, RequestRescan(a)
      PROVE  ValidPersistedState(b)'
  BY <1>9, <1>v, <1>s DEF RequestRescan, TypeOK
<1>10. ASSUME NEW a \in Artifact, NEW mark \in {"enabled", "disabled"},
              SetBaselineEligibility(a, mark)
       PROVE  ValidPersistedState(b)'
  BY <1>10, <1>v DEF SetBaselineEligibility
<1>11. CASE UNCHANGED vars
  BY <1>11, <1>v DEF vars
<1>12. QED
  BY <1>1, <1>2, <1>3, <1>4, <1>5, <1>6, <1>7, <1>8, <1>9, <1>10, <1>11 DEF Next

\* No operation, whatever order they run in, persists a row that makes the store
\* unavailable to readers and administrators.
THEOREM StoreStaysValid == Spec => []PersistedStateValid
  BY InitTypeOK, NextTypeOK, InitValid, NextValid, PTL DEF Spec

\* Between a rescan request and the next verdict nothing is served.
THEOREM PendingIsBlocked == Spec => []PendingAnalysisBlocks
<1>1. TypeOK /\ PersistedStateValid => PendingAnalysisBlocks
  BY DEF TypeOK, PersistedStateValid, ValidPersistedState, ValidOverride,
         PendingAnalysisBlocks, Allowed, EffectiveDecision, OverrideActive,
         FallbackDecision, TerminalStates, VerdictStates
<1>2. QED
  BY <1>1, TypeCorrect, StoreStaysValid, PTL

-----------------------------------------------------------------------------
(* The fence. *)

\* Without a claim there is nothing to fence.
LEMMA InitFence == Init => FenceInv
  BY DEF Init, FenceInv, ResultFromNewestClaim, TerminalStates, VerdictStates

\* Tokens stay unique and the newest claim of an artifact holds its lease.
LEMMA NextFence == TypeOK /\ FenceInv /\ [Next]_vars => FenceInv'
<1> SUFFICES ASSUME TypeOK, FenceInv, [Next]_vars
             PROVE  FenceInv'
  OBVIOUS
<1>t. "SCANNING" \notin TerminalStates /\ "DISCOVERED" \notin TerminalStates
  BY DEF TerminalStates, VerdictStates
<1>d. "SCANNING" \notin VerdictStates /\ VerdictStates \subseteq TerminalStates
  BY DEF TerminalStates, VerdictStates
<1>f. \A c \in claims : c.token \in Nat /\ c.artifact \in Artifact /\ c.token <= issued
  BY DEF TypeOK, Claims, FenceInv
<1>1. CASE Tick
  BY <1>1 DEF Tick, FenceInv, ResultFromNewestClaim
<1>2. ASSUME NEW a \in Artifact, NEW r \in Release, NEW at \in 0..clock,
             DiscoverArtifact(a, r, at)
      PROVE  FenceInv'
  BY <1>2, <1>t DEF DiscoverArtifact, FenceInv, ResultFromNewestClaim, TypeOK
<1>3. ASSUME NEW w \in Worker, NEW a \in Artifact, NEW until \in Time,
             ClaimNext(w, a, until)
      PROVE  FenceInv'
  <2> DEFINE n == [artifact |-> a, owner |-> w, expires |-> until,
                   token |-> issued + 1]
  <2>0. claims' = claims \cup {n} /\ issued' = issued + 1 /\ issued \in Nat
    BY <1>3 DEF ClaimNext, TypeOK
  <2>1. \A c \in claims' : c.token <= issued'
    BY <2>0, <1>f
  <2>2. \A c, d \in claims' : c.token = d.token => c = d
    BY <2>0, <1>f DEF FenceInv
  <2>3. \A b \in Artifact : state'[b] = "SCANNING" =>
           \A c \in claims' : c.artifact = b => c.token <= lease'[b].token
    <3> SUFFICES ASSUME NEW b \in Artifact, state'[b] = "SCANNING",
                        NEW c \in claims', c.artifact = b
                 PROVE  c.token <= lease'[b].token
      OBVIOUS
    <3>1. CASE b = a
      <4>1. lease'[b].token = issued + 1
        BY <1>3, <3>1 DEF ClaimNext, TypeOK
      <4>2. QED
        BY <4>1, <2>0, <2>1
    <3>2. CASE b # a
      <4>1. state[b] = "SCANNING" /\ lease'[b] = lease[b] /\ c \in claims
        BY <1>3, <3>2, <2>0 DEF ClaimNext, TypeOK
      <4>2. QED
        BY <4>1 DEF FenceInv
    <3>3. QED
      BY <3>1, <3>2
  <2>4. ResultFromNewestClaim'
    <3> SUFFICES ASSUME NEW b \in Artifact, state'[b] \in TerminalStates,
                        NEW c \in claims', c.artifact = b
                 PROVE  c.token <= settler'[b]
      BY DEF ResultFromNewestClaim
    <3>1. b # a
      BY <1>3, <1>t DEF ClaimNext, TypeOK
    <3>2. state[b] = state'[b] /\ settler' = settler /\ c \in claims
      BY <1>3, <3>1, <2>0 DEF ClaimNext, TypeOK
    <3>3. QED
      BY <3>2 DEF FenceInv, ResultFromNewestClaim
  <2>5. QED
    BY <2>1, <2>2, <2>3, <2>4 DEF FenceInv
<1>4. ASSUME NEW now \in 0..clock, RecoverExpiredClaims(now)
      PROVE  FenceInv'
  BY <1>4, <1>t DEF RecoverExpiredClaims, FenceInv, ResultFromNewestClaim, TypeOK
<1>5. ASSUME NEW c \in claims, HoldsLease(c),
             claims' = claims, issued' = issued,
             state'[c.artifact] \in TerminalStates,
             settler' = [settler EXCEPT ![c.artifact] = c.token],
             \A b \in Artifact \ {c.artifact} :
                state'[b] = state[b] /\ lease'[b] = lease[b]
      PROVE  FenceInv'
  <2>1. c.artifact \in Artifact
    BY <1>f
  <2>2. \A d \in claims : d.artifact = c.artifact => d.token <= c.token
    BY <1>5, <2>1 DEF HoldsLease, FenceInv
  <2>3. \A b \in Artifact : state'[b] = "SCANNING" =>
           \A d \in claims : d.artifact = b => d.token <= lease'[b].token
    BY <1>5, <1>t DEF FenceInv
  <2>4. ResultFromNewestClaim'
    BY <1>5, <2>1, <2>2 DEF FenceInv, ResultFromNewestClaim, TypeOK
  <2>5. QED
    BY <1>5, <2>3, <2>4 DEF FenceInv
<1>6. ASSUME NEW c \in claims, NEW decision \in VerdictStates, NEW until \in Time,
             RecordVerdict(c, decision, until)
      PROVE  FenceInv'
  BY <1>5, <1>6, <1>f, <1>d DEF RecordVerdict, TypeOK
<1>7. ASSUME NEW c \in claims, MarkAnalysisError(c)
      PROVE  FenceInv'
  BY <1>5, <1>7, <1>f DEF MarkAnalysisError, TypeOK, TerminalStates
<1>8. ASSUME NEW a \in Artifact, NEW decision \in ManualDecisions,
             NEW expires \in Time \cup {Never},
             SetManualOverride(a, decision, expires)
      PROVE  FenceInv'
  BY <1>8 DEF SetManualOverride, FenceInv, ResultFromNewestClaim
<1>9. ASSUME NEW a \in Artifact, RevokeManualOverride(a)
      PROVE  FenceInv'
  BY <1>9 DEF RevokeManualOverride, FenceInv, ResultFromNewestClaim
<1>10. ASSUME NEW a \in Artifact, RequestRescan(a)
       PROVE  FenceInv'
  BY <1>10, <1>t DEF RequestRescan, FenceInv, ResultFromNewestClaim, TypeOK
<1>11. ASSUME NEW a \in Artifact, NEW mark \in {"enabled", "disabled"},
              SetBaselineEligibility(a, mark)
       PROVE  FenceInv'
  BY <1>11 DEF SetBaselineEligibility, FenceInv, ResultFromNewestClaim
<1>12. CASE UNCHANGED vars
  BY <1>12 DEF vars, FenceInv, ResultFromNewestClaim
<1>13. QED
  BY <1>1, <1>2, <1>3, <1>4, <1>6, <1>7, <1>8, <1>9, <1>10, <1>11, <1>12 DEF Next

\* The inductive invariant of the fence holds in every reachable state.
THEOREM FenceHolds == Spec => []FenceInv
  BY InitTypeOK, NextTypeOK, InitFence, NextFence, PTL DEF Spec

\* A verdict or an error that a worker reports late is never the result that an
\* artifact shows.
THEOREM NewestClaimSettles == Spec => []ResultFromNewestClaim
<1>1. FenceInv => ResultFromNewestClaim
  BY DEF FenceInv
<1>2. QED
  BY <1>1, FenceHolds, PTL

-----------------------------------------------------------------------------
(* The audit trail.  A step does one of four things to an artifact, and    *)
(* every audit property follows from that.                                 *)

\* Before a result exists there is no override and no decision but DENY.
LEMMA PendingDecision ==
  ASSUME TypeOK, PersistedStateValid, NEW a \in Artifact,
         state[a] \notin TerminalStates
  PROVE  override[a] = NoOverride /\ EffectiveDecision(a) = "DENY"
  BY DEF PersistedStateValid, ValidPersistedState, ValidOverride,
         EffectiveDecision, OverrideActive, FallbackDecision, TerminalStates,
         VerdictStates

Ticked == clock' > clock /\ trail' = trail

Quiet(a) ==
    /\ clock' = clock
    /\ trail'[a] = trail[a]
    /\ EffectiveDecision(a)' = EffectiveDecision(a)

Mapped(a) ==
    /\ clock' = clock
    /\ trail'[a].action = "artifact.discovered"
    /\ trail'[a].at <= clock
    /\ EffectiveDecision(a)' = EffectiveDecision(a)

Told(a) ==
    /\ clock' = clock
    /\ trail'[a].action \notin {"none", "artifact.discovered"}
    /\ trail'[a].at <= clock
    /\ trail'[a].previous = EffectiveDecision(a)
    /\ trail'[a].new = EffectiveDecision(a)'
    /\ trail'[a].at = clock \/ EffectiveDecision(a)' = EffectiveDecision(a)

\* An event that an operation appends through Audit.
LEMMA AuditTells ==
  ASSUME TypeOK, NEW a \in Artifact, NEW action, NEW previous, NEW new,
         Audit(a, action, previous, new), clock' = clock,
         action \notin {"none", "artifact.discovered"},
         previous = EffectiveDecision(a), new = EffectiveDecision(a)'
  PROVE  Told(a)
<1>1. trail'[a] = Event(action, previous, new, clock)
  BY DEF Audit, TypeOK
<1>2. clock \in Nat
  BY DEF TypeOK
<1>3. QED
  BY <1>1, <1>2 DEF Told, Event

\* Audit touches one artifact.
LEMMA BystanderQuiet ==
  ASSUME TypeOK, clock' = clock, NEW b \in Artifact, trail'[b] = trail[b],
         state'[b] = state[b], verdict'[b] = verdict[b],
         override'[b] = override[b]
  PROVE  Quiet(b)
  BY DEF Quiet, EffectiveDecision, OverrideActive, FallbackDecision

\* A result that replaces no override is the new decision.
LEMMA ResultDecides ==
  ASSUME NEW a \in Artifact, override'[a] = NoOverride
  PROVE  EffectiveDecision(a)' =
           IF state'[a] = "ALLOW" /\ verdict'[a] = "ALLOW" THEN "ALLOW" ELSE "DENY"
  BY DEF EffectiveDecision, OverrideActive, FallbackDecision

\* What a step of the store does to one artifact.
LEMMA StepCases ==
  ASSUME TypeOK, PersistedStateValid, [Next]_vars, NEW b \in Artifact
  PROVE  Ticked \/ Quiet(b) \/ Mapped(b) \/ Told(b)
<1>t. "SCANNING" \notin TerminalStates /\ "DISCOVERED" \notin TerminalStates
      /\ "MISSING" \notin TerminalStates
  BY DEF TerminalStates, VerdictStates
<1>p. state[b] \notin TerminalStates =>
        override[b] = NoOverride /\ EffectiveDecision(b) = "DENY"
  BY PendingDecision
<1>c. clock \in Nat
  BY DEF TypeOK
<1>1. CASE Tick
  BY <1>1, <1>c DEF Tick, Ticked
<1>2. ASSUME NEW a \in Artifact, NEW r \in Release, NEW at \in 0..clock,
             DiscoverArtifact(a, r, at)
      PROVE  Quiet(b) \/ Mapped(b)
  <2>1. CASE a # b
    BY <1>2, <2>1, BystanderQuiet DEF DiscoverArtifact, TypeOK
  <2>2. CASE a = b
    <3>1. trail'[b] = Event("artifact.discovered", "DENY", "DENY", at)
          /\ clock' = clock /\ override' = override /\ verdict' = verdict
          /\ state'[b] = IF state[b] = "MISSING" THEN "DISCOVERED" ELSE state[b]
      BY <1>2, <2>2 DEF DiscoverArtifact, TypeOK
    <3>2. EffectiveDecision(b)' = EffectiveDecision(b)
      BY <3>1, <1>p, <1>t DEF EffectiveDecision, OverrideActive, FallbackDecision
    <3>3. at <= clock
      BY <1>c
    <3>4. QED
      BY <3>1, <3>2, <3>3 DEF Mapped, Event
  <2>3. QED
    BY <2>1, <2>2
<1>3. ASSUME NEW w \in Worker, NEW a \in Artifact, NEW until \in Time,
             ClaimNext(w, a, until)
      PROVE  Quiet(b) \/ Told(b)
  <2>1. CASE a # b
    BY <1>3, <2>1, BystanderQuiet DEF ClaimNext, Audit, TypeOK
  <2>2. CASE a = b
    <3>1. state[b] = "DISCOVERED" /\ state'[b] = "SCANNING"
          /\ override'[b] = override[b]
      BY <1>3, <2>2 DEF ClaimNext, OldestDiscovered, TypeOK
    <3>2. EffectiveDecision(b) = "DENY" /\ EffectiveDecision(b)' = "DENY"
      BY <3>1, <1>t, <1>p, ResultDecides
    <3>3. QED
      BY <1>3, <2>2, <3>2, AuditTells DEF ClaimNext
  <2>3. QED
    BY <2>1, <2>2
<1>4. ASSUME NEW now \in 0..clock, RecoverExpiredClaims(now)
      PROVE  Quiet(b) \/ Told(b)
  <2>1. CASE b \notin Expired(now)
    BY <1>4, <2>1, BystanderQuiet DEF RecoverExpiredClaims
  <2>2. CASE b \in Expired(now)
    <3>1. state[b] = "SCANNING" /\ state'[b] = "DISCOVERED"
          /\ override'[b] = override[b] /\ clock' = clock
          /\ trail'[b] = Event("artifact.lease_expired", "DENY", "DENY", now)
      BY <1>4, <2>2 DEF RecoverExpiredClaims, Expired
    <3>2. EffectiveDecision(b) = "DENY" /\ EffectiveDecision(b)' = "DENY"
      BY <3>1, <1>t, <1>p, ResultDecides
    <3>3. now <= clock
      BY <1>c
    <3>4. QED
      BY <3>1, <3>2, <3>3 DEF Told, Event
  <2>3. QED
    BY <2>1, <2>2
<1>5. ASSUME NEW c \in claims, NEW decision \in VerdictStates, NEW until \in Time,
             RecordVerdict(c, decision, until)
      PROVE  Quiet(b) \/ Told(b)
  <2> DEFINE new == IF decision = "ALLOW" THEN "ALLOW" ELSE "DENY"
  <2>1. CASE c.artifact # b
    BY <1>5, <2>1, BystanderQuiet DEF RecordVerdict, Audit, TypeOK
  <2>2. CASE c.artifact = b
    <3>1. state[b] = "SCANNING" /\ state'[b] = decision
          /\ verdict'[b] = decision /\ override'[b] = override[b]
      BY <1>5, <2>2 DEF RecordVerdict, HoldsLease, TypeOK
    <3>2. EffectiveDecision(b) = "DENY" /\ EffectiveDecision(b)' = new
      BY <3>1, <1>t, <1>p, ResultDecides
    <3>3. Audit(b, "artifact.verdict_recorded", "DENY", new) /\ clock' = clock
      BY <1>5, <2>2 DEF RecordVerdict
    <3>4. QED
      BY <3>2, <3>3, AuditTells
  <2>3. QED
    BY <2>1, <2>2
<1>6. ASSUME NEW c \in claims, MarkAnalysisError(c)
      PROVE  Quiet(b) \/ Told(b)
  <2>1. CASE c.artifact # b
    BY <1>6, <2>1, BystanderQuiet DEF MarkAnalysisError, Audit, TypeOK
  <2>2. CASE c.artifact = b
    <3>1. state[b] = "SCANNING" /\ state'[b] = "ERROR"
          /\ override'[b] = override[b]
      BY <1>6, <2>2 DEF MarkAnalysisError, HoldsLease, TypeOK
    <3>2. EffectiveDecision(b) = "DENY" /\ EffectiveDecision(b)' = "DENY"
      BY <3>1, <1>t, <1>p, ResultDecides
    <3>3. QED
      BY <1>6, <2>2, <3>2, AuditTells DEF MarkAnalysisError
  <2>3. QED
    BY <2>1, <2>2
<1>7. ASSUME NEW a \in Artifact, NEW decision \in ManualDecisions,
             NEW expires \in Time \cup {Never},
             SetManualOverride(a, decision, expires)
      PROVE  Quiet(b) \/ Told(b)
  <2>1. CASE a # b
    BY <1>7, <2>1, BystanderQuiet DEF SetManualOverride, Audit, TypeOK
  <2>2. CASE a = b
    <3>1. override'[b] = [decision |-> decision, expires |-> expires]
          /\ expires > clock /\ clock' = clock
      BY <1>7, <2>2 DEF SetManualOverride, TypeOK
    <3>2. override'[b] # NoOverride
      BY <3>1 DEF NoOverride, ManualDecisions
    <3>3. EffectiveDecision(b)' = decision
      BY <3>1, <3>2 DEF EffectiveDecision, OverrideActive
    <3>4. QED
      BY <1>7, <2>2, <3>3, AuditTells DEF SetManualOverride
  <2>3. QED
    BY <2>1, <2>2
<1>8. ASSUME NEW a \in Artifact, RevokeManualOverride(a)
      PROVE  Quiet(b) \/ Told(b)
  <2>1. CASE a # b
    BY <1>8, <2>1, BystanderQuiet DEF RevokeManualOverride, Audit, TypeOK
  <2>2. CASE a = b
    <3>1. override'[b] = NoOverride /\ state' = state /\ verdict' = verdict
      BY <1>8, <2>2 DEF RevokeManualOverride, TypeOK
    <3>2. EffectiveDecision(b)' = FallbackDecision(b)
      BY <3>1, ResultDecides DEF FallbackDecision
    <3>3. QED
      BY <1>8, <2>2, <3>2, AuditTells DEF RevokeManualOverride
  <2>3. QED
    BY <2>1, <2>2
<1>9. ASSUME NEW a \in Artifact, RequestRescan(a)
      PROVE  Quiet(b) \/ Told(b)
  <2>1. CASE a # b
    BY <1>9, <2>1, BystanderQuiet DEF RequestRescan, Audit, TypeOK
  <2>2. CASE a = b
    <3>1. override'[b] = NoOverride /\ state'[b] = "DISCOVERED"
      BY <1>9, <2>2 DEF RequestRescan, TypeOK
    <3>2. EffectiveDecision(b)' = "DENY"
      BY <3>1, ResultDecides
    <3>3. QED
      BY <1>9, <2>2, <3>2, AuditTells DEF RequestRescan
  <2>3. QED
    BY <2>1, <2>2
<1>10. ASSUME NEW a \in Artifact, NEW mark \in {"enabled", "disabled"},
              SetBaselineEligibility(a, mark)
       PROVE  Quiet(b) \/ Told(b)
  <2>1. CASE a # b
    BY <1>10, <2>1, BystanderQuiet DEF SetBaselineEligibility, Audit, TypeOK
  <2>2. CASE a = b
    <3> DEFINE action == IF mark = "enabled" THEN "baseline.added"
                                             ELSE "baseline.removed"
    <3>1. clock' = clock /\ EffectiveDecision(b)' = EffectiveDecision(b)
      BY <1>10, <2>2 DEF SetBaselineEligibility, EffectiveDecision,
            OverrideActive, FallbackDecision
    <3>2. Audit(b, action, EffectiveDecision(b), EffectiveDecision(b))
      BY <1>10, <2>2 DEF SetBaselineEligibility
    <3>3. QED
      BY <3>1, <3>2, AuditTells
  <2>3. QED
    BY <2>1, <2>2
<1>11. CASE UNCHANGED vars
  BY <1>11, BystanderQuiet DEF vars
<1>12. QED
  BY <1>1, <1>2, <1>3, <1>4, <1>5, <1>6, <1>7, <1>8, <1>9, <1>10, <1>11 DEF Next

\* The strengthening: an event of this very instant states the decision in force,
\* so two equal events in a row mean that the decision did not change.
TrailInv ==
    \A a \in Artifact :
        /\ trail[a].at <= clock
        /\ trail[a].action \notin {"none", "artifact.discovered"}
             /\ trail[a].at = clock => trail[a].new = EffectiveDecision(a)

\* An empty trail states nothing.
LEMMA InitTrail == Init => TrailInv
<1> SUFFICES ASSUME Init, NEW a \in Artifact
             PROVE  trail[a].at <= clock /\ trail[a].action = "none"
  BY DEF TrailInv
<1>1. trail[a] = NoEvent /\ clock = 0
  BY DEF Init
<1>2. QED
  BY <1>1 DEF NoEvent

\* Each of the four kinds of step keeps the trail consistent.
LEMMA NextTrail ==
  TypeOK /\ PersistedStateValid /\ TrailInv /\ [Next]_vars => TrailInv'
<1> SUFFICES ASSUME TypeOK, PersistedStateValid, TrailInv, [Next]_vars,
                    NEW a \in Artifact
             PROVE  /\ trail'[a].at <= clock'
                    /\ trail'[a].action \notin {"none", "artifact.discovered"}
                         /\ trail'[a].at = clock'
                            => trail'[a].new = EffectiveDecision(a)'
  BY DEF TrailInv
<1>1. clock \in Nat /\ trail[a].at \in Nat /\ trail[a].at <= clock
  BY DEF TypeOK, Events, TrailInv
<1>2. clock' \in Nat
  BY NextTypeOK DEF TypeOK
<1>3. CASE Ticked
  BY <1>1, <1>2, <1>3 DEF Ticked
<1>4. CASE Quiet(a)
  BY <1>1, <1>4 DEF Quiet, TrailInv
<1>5. CASE Mapped(a)
  BY <1>5 DEF Mapped
<1>6. CASE Told(a)
  BY <1>6 DEF Told
<1>7. QED
  BY <1>3, <1>4, <1>5, <1>6, StepCases

\* The audit log never misstates a decision (but for artifact.discovered) and no
\* decision changes behind its back.
THEOREM AuditIsTruthful == Spec => AuditMatchesDecision
<1> DEFINE Step == \A a \in Artifact :
          /\ trail'[a] # trail[a] /\ trail'[a].action # "artifact.discovered" =>
                /\ trail'[a].previous = EffectiveDecision(a)
                /\ trail'[a].new = EffectiveDecision(a)'
          /\ EffectiveDecision(a)' # EffectiveDecision(a) =>
                clock' # clock \/ trail'[a] # trail[a]
<1>1. TypeOK /\ PersistedStateValid /\ TrailInv /\ [Next]_vars => Step
  <2> SUFFICES ASSUME TypeOK, PersistedStateValid, TrailInv, [Next]_vars,
                      NEW a \in Artifact
               PROVE  /\ trail'[a] # trail[a]
                           /\ trail'[a].action # "artifact.discovered" =>
                            /\ trail'[a].previous = EffectiveDecision(a)
                            /\ trail'[a].new = EffectiveDecision(a)'
                      /\ EffectiveDecision(a)' # EffectiveDecision(a) =>
                            clock' # clock \/ trail'[a] # trail[a]
    OBVIOUS
  <2>1. CASE Ticked
    BY <2>1 DEF Ticked, TypeOK
  <2>2. CASE Quiet(a) \/ Mapped(a)
    BY <2>2 DEF Quiet, Mapped
  <2>3. CASE Told(a)
    <3>1. trail'[a] = trail[a] /\ trail'[a].at = clock
             => trail[a].new = EffectiveDecision(a)
      BY <2>3 DEF Told, TrailInv
    <3>2. QED
      BY <3>1, <2>3 DEF Told
  <2>4. QED
    BY <2>1, <2>2, <2>3, StepCases
<1>2. QED
  BY <1>1, InitTypeOK, NextTypeOK, InitValid, NextValid, InitTrail, NextTrail, PTL
     DEF Spec, AuditMatchesDecision

\* A removal from the baselines is only undone by an explicit, allowed addition.
THEOREM OptOutSticks == Spec => BaselineOptOutSticks
<1> DEFINE Step == \A a \in Artifact :
          baseline[a] = "disabled" /\ baseline'[a] # "disabled" =>
              Allowed(a) /\ trail'[a].action = "baseline.added"
<1>1. TypeOK /\ [Next]_vars => Step
  <2> SUFFICES ASSUME TypeOK, [Next]_vars, NEW b \in Artifact,
                      baseline[b] = "disabled", baseline'[b] # "disabled"
               PROVE  Allowed(b) /\ trail'[b].action = "baseline.added"
    OBVIOUS
  <2>1. PICK a \in Artifact, mark \in {"enabled", "disabled"} :
             SetBaselineEligibility(a, mark)
    BY DEF Next, vars, Tick, DiscoverArtifact, ClaimNext, RecoverExpiredClaims,
           RecordVerdict, MarkAnalysisError, SetManualOverride,
           RevokeManualOverride, RequestRescan
  <2>2. a = b /\ mark = "enabled"
    BY <2>1 DEF SetBaselineEligibility, TypeOK
  <2>3. trail'[b] = Event("baseline.added", EffectiveDecision(b),
                          EffectiveDecision(b), clock)
    BY <2>1, <2>2 DEF SetBaselineEligibility, Audit, TypeOK
  <2>4. QED
    BY <2>1, <2>2, <2>3 DEF SetBaselineEligibility, Event
<1>2. QED
  BY <1>1, InitTypeOK, NextTypeOK, PTL DEF Spec, BaselineOptOutSticks

-----------------------------------------------------------------------------
(* The store implements the fenced queue. *)

\* The empty table is an empty queue.
LEMMA InitRefines == Init => Queue!QInit
  BY DEF Init, Queue!QInit, Phase, NoLease

\* The phase of a row follows from its state.
LEMMA PhaseOfState ==
  ASSUME NEW a \in Artifact, state[a] \in ArtifactStates
  PROVE  /\ Phase(a) = "absent" <=> state[a] = "MISSING"
         /\ Phase(a) = "queued" <=> state[a] = "DISCOVERED"
         /\ Phase(a) = "leased" <=> state[a] = "SCANNING"
         /\ Phase(a) = "settled" <=> state[a] \in TerminalStates
  BY DEF Phase, ArtifactStates, TerminalStates, VerdictStates

\* A row whose state does not change keeps its phase.
LEMMA SamePhase ==
  ASSUME NEW a \in Artifact, state'[a] = state[a]
  PROVE  Phase(a)' = Phase(a)
  BY DEF Phase

\* An operation that leaves states, leases and results alone is a stutter.
LEMMA Stutter ==
  ASSUME state' = state, lease' = lease, settler' = settler, issued' = issued
  PROVE  UNCHANGED Queue!qvars
<1>1. [a \in Artifact |-> Phase(a)]' = [a \in Artifact |-> Phase(a)]
  BY SamePhase
<1>2. [a \in Artifact |-> lease[a].token]' = [a \in Artifact |-> lease[a].token]
  OBVIOUS
<1>3. QED
  BY <1>1, <1>2 DEF Queue!qvars

\* A row that is not being analysed has no lease, and its token reads 0.
LEMMA NoToken ==
  ASSUME PersistedStateValid, NEW a \in Artifact, state[a] # "SCANNING"
  PROVE  lease[a] = NoLease
  BY DEF PersistedStateValid, ValidPersistedState, ValidLease

\* Every operation of the store is one step of the queue or a stutter.
LEMMA NextRefines ==
  TypeOK /\ PersistedStateValid /\ [Next]_vars => [Queue!QNext]_(Queue!qvars)
<1> SUFFICES ASSUME TypeOK, PersistedStateValid, [Next]_vars
             PROVE  Queue!QNext \/ UNCHANGED Queue!qvars
  BY DEF Queue!qvars
<1> DEFINE phase == [a \in Artifact |-> Phase(a)]
           holder == [a \in Artifact |-> lease[a].token]
<1>t. state \in [Artifact -> ArtifactStates] /\ lease \in [Artifact -> Leases]
      /\ settler \in [Artifact -> Nat]
  BY DEF TypeOK
<1>1. CASE Tick
  BY <1>1, Stutter DEF Tick
<1>2. ASSUME NEW a \in Artifact, NEW r \in Release, NEW at \in 0..clock,
             DiscoverArtifact(a, r, at)
      PROVE  Queue!QNext \/ UNCHANGED Queue!qvars
  <2>0. lease' = lease /\ settler' = settler /\ issued' = issued
    BY <1>2 DEF DiscoverArtifact
  <2>1. CASE state[a] # "MISSING"
    <3>1. state' = state
      BY <1>2, <2>1, <1>t DEF DiscoverArtifact
    <3>2. QED
      BY <2>0, <3>1, Stutter
  <2>2. CASE state[a] = "MISSING"
    <3>1. state' = [state EXCEPT ![a] = "DISCOVERED"]
      BY <1>2, <2>2, <1>t DEF DiscoverArtifact
    <3>2. phase[a] = "absent" /\ Phase(a)' = "queued"
      BY <2>2, <3>1, <1>t DEF Phase
    <3>3. \A b \in Artifact : b # a => Phase(b)' = Phase(b)
      BY <3>1, <1>t, SamePhase
    <3>4. phase' = [b \in Artifact |-> IF b \in {a} THEN "queued" ELSE phase[b]]
      BY <3>2, <3>3
    <3>5. {a} \in SUBSET Artifact /\ Queue!Add({a})
      BY <2>0, <3>2, <3>4 DEF Queue!Add
    <3>6. QED
      BY <3>5 DEF Queue!QNext
  <2>3. QED
    BY <2>1, <2>2
<1>3. ASSUME NEW w \in Worker, NEW a \in Artifact, NEW until \in Time,
             ClaimNext(w, a, until)
      PROVE  Queue!QNext \/ UNCHANGED Queue!qvars
  <2>1. state[a] = "DISCOVERED" /\ state' = [state EXCEPT ![a] = "SCANNING"]
        /\ settler' = settler /\ issued' = issued + 1
    BY <1>3 DEF ClaimNext, OldestDiscovered
  <2>2. phase[a] = "queued" /\ Phase(a)' = "leased"
    BY <2>1, <1>t DEF Phase
  <2>3. \A b \in Artifact : b # a => Phase(b)' = Phase(b)
    BY <2>1, <1>t, SamePhase
  <2>4. phase' = [b \in Artifact |-> IF b = a THEN "leased"
                                  ELSE IF b \in {} THEN "settled" ELSE phase[b]]
    BY <2>2, <2>3
  <2>5. holder' = [holder EXCEPT ![a] = issued + 1]
    BY <1>3, <1>t DEF ClaimNext
  <2>6. Queue!Lease(a, {})
    BY <2>1, <2>2, <2>4, <2>5 DEF Queue!Lease
  <2>7. QED
    BY <2>6 DEF Queue!QNext
<1>4. ASSUME NEW now \in 0..clock, RecoverExpiredClaims(now)
      PROVE  Queue!QNext \/ UNCHANGED Queue!qvars
  <2>0. PICK S \in SUBSET Artifact : S = Expired(now)
    BY DEF Expired
  <2>1. S # {} /\ settler' = settler /\ issued' = issued
    BY <1>4, <2>0 DEF RecoverExpiredClaims
  <2>2. \A b \in S : phase[b] = "leased" /\ Phase(b)' = "queued"
    BY <1>4, <1>t, <2>0 DEF RecoverExpiredClaims, Expired, Phase
  <2>3. \A b \in Artifact : b \notin S => Phase(b)' = Phase(b)
    BY <1>4, <2>0, SamePhase DEF RecoverExpiredClaims
  <2>4. phase' = [b \in Artifact |->
                    IF b \in S THEN "queued"
                    ELSE IF b \in {} THEN "settled" ELSE phase[b]]
    BY <2>1, <2>2, <2>3
  <2>5. holder' = [b \in Artifact |-> IF b \in S \cup {} THEN 0 ELSE holder[b]]
    BY <1>4, <2>0 DEF RecoverExpiredClaims, NoLease
  <2>6. Queue!Requeue(S, {})
    BY <2>1, <2>2, <2>4, <2>5 DEF Queue!Requeue
  <2>7. QED
    BY <2>6 DEF Queue!QNext
<1>5. ASSUME NEW c \in claims, HoldsLease(c), issued' = issued,
             NEW result \in TerminalStates,
             state' = [state EXCEPT ![c.artifact] = result],
             lease' = [lease EXCEPT ![c.artifact] = NoLease],
             settler' = [settler EXCEPT ![c.artifact] = c.token]
      PROVE  Queue!QNext
  <2> DEFINE a == c.artifact
  <2>1. a \in Artifact
    BY DEF TypeOK, Claims
  <2>2. phase[a] = "leased" /\ holder[a] = c.token
    BY <1>5, <2>1 DEF HoldsLease, Phase
  <2>3. Phase(a)' = "settled"
    BY <1>5, <2>1, <1>t DEF Phase, TerminalStates, VerdictStates
  <2>4. \A b \in Artifact : b # a => Phase(b)' = Phase(b)
    BY <1>5, <1>t, SamePhase
  <2>5. phase' = [phase EXCEPT ![a] = "settled"]
    BY <2>3, <2>4
  <2>6. holder' = [holder EXCEPT ![a] = 0]
    BY <1>5, <1>t DEF NoLease
  <2>7. settler' = [settler EXCEPT ![a] = holder[a]]
    BY <1>5, <2>2
  <2> HIDE DEF a
  <2>8. Queue!Settle(a)
    BY <1>5, <2>2, <2>5, <2>6, <2>7 DEF Queue!Settle
  <2>9. QED
    BY <2>1, <2>8 DEF Queue!QNext
<1>6. ASSUME NEW c \in claims, NEW decision \in VerdictStates, NEW until \in Time,
             RecordVerdict(c, decision, until)
      PROVE  Queue!QNext
  BY <1>5, <1>6 DEF RecordVerdict, TerminalStates
<1>7. ASSUME NEW c \in claims, MarkAnalysisError(c)
      PROVE  Queue!QNext
  BY <1>5, <1>7 DEF MarkAnalysisError, TerminalStates
<1>8. ASSUME NEW a \in Artifact, NEW decision \in ManualDecisions,
             NEW expires \in Time \cup {Never},
             SetManualOverride(a, decision, expires)
      PROVE  UNCHANGED Queue!qvars
  BY <1>8, Stutter DEF SetManualOverride
<1>9. ASSUME NEW a \in Artifact, RevokeManualOverride(a)
      PROVE  UNCHANGED Queue!qvars
  BY <1>9, Stutter DEF RevokeManualOverride
<1>10. ASSUME NEW a \in Artifact, RequestRescan(a)
       PROVE  Queue!QNext
  <2>1. state[a] \in TerminalStates /\ state' = [state EXCEPT ![a] = "DISCOVERED"]
        /\ settler' = settler /\ issued' = issued
    BY <1>10 DEF RequestRescan
  <2>2. phase[a] = "settled" /\ Phase(a)' = "queued"
    BY <2>1, <1>t DEF Phase, TerminalStates, VerdictStates
  <2>3. \A b \in Artifact : b # a => Phase(b)' = Phase(b)
    BY <2>1, <1>t, SamePhase
  <2>4. phase' = [phase EXCEPT ![a] = "queued"]
    BY <2>2, <2>3
  <2>5. lease[a] = NoLease
    BY <2>1, NoToken DEF TerminalStates, VerdictStates
  <2>6. lease' = lease
    BY <1>10, <2>5, <1>t DEF RequestRescan
  <2>7. Queue!Reopen(a)
    BY <2>1, <2>2, <2>4, <2>6 DEF Queue!Reopen
  <2>8. QED
    BY <2>7 DEF Queue!QNext
<1>11. ASSUME NEW a \in Artifact, NEW mark \in {"enabled", "disabled"},
              SetBaselineEligibility(a, mark)
       PROVE  UNCHANGED Queue!qvars
  BY <1>11, Stutter DEF SetBaselineEligibility
<1>12. CASE UNCHANGED vars
  BY <1>12, Stutter DEF vars
<1>13. QED
  BY <1>1, <1>2, <1>3, <1>4, <1>6, <1>7, <1>8, <1>9, <1>10, <1>11, <1>12 DEF Next

\* The artifact table is a fenced queue: one lease at a time, and only the newest
\* lease of an artifact settles its analysis.
THEOREM StoreImplementsQueue == Spec => ImplementsFencedQueue
  BY InitTypeOK, NextTypeOK, InitValid, NextValid, InitRefines, NextRefines, PTL
     DEF Spec, ImplementsFencedQueue, Queue!QSpec

==============================================================================
