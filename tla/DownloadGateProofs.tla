-------------------------- MODULE DownloadGateProofs --------------------------
(***************************************************************************)
(* Theorems about the gate for any number of artifacts, requests, claims   *)
(* and releases.  They rest on what VerdictStoreProofs shows of the store, *)
(* because every behaviour of the gate is one of the store below it.       *)
(***************************************************************************)
EXTENDS DownloadGate, VerdictStoreProofs, FiniteSetTheorems, WellFoundedInduction

-----------------------------------------------------------------------------
(* The store below. *)

\* A step of the gate leaves the store alone.
LEMMA StoreBelow == GateSpec => Spec
<1>1. GateInit => Init
  BY DEF GateInit
<1>2. [GateNext]_<<vars, gateVars>> => [Next]_vars
  BY DEF GateNext, vars
<1>3. QED
  BY <1>1, <1>2, PTL DEF GateSpec, Spec

\* The rows that the gate reads are well typed and valid.
LEMMA StoreIsSound == GateSpec => [](TypeOK /\ PersistedStateValid)
  BY StoreBelow, TypeCorrect, StoreStaysValid, PTL

-----------------------------------------------------------------------------
(* The filter and the tween. *)

\* An ALLOW that the reader returns passes the stricter test of the tween, because the
\* fields that the tween asks for follow from the validity of the rows.
LEMMA DecisionsAgree ==
  ASSUME TypeOK, PersistedStateValid, NEW a \in Artifact, NEW t \in Nat
  PROVE  DecisionAt(a, t).allowed <=> IsExactAllow(DecisionAt(a, t))
<1> DEFINE d == DecisionAt(a, t)
<1>1. IsExactAllow(d) => d.allowed
  BY DEF IsExactAllow
<1>2. ASSUME d.allowed
      PROVE  IsExactAllow(d)
  <2>1. CASE OverrideInForce(a, t)
    <3>1. /\ d.allowed /\ d.effective = "ALLOW"
          /\ d.artifactState = state[a] /\ d.versioned = (verdict[a] # "NONE")
      BY <1>2, <2>1 DEF DecisionAt
    <3>2. state[a] \in TerminalStates /\ state[a] # "MISSING"
      BY <2>1 DEF OverrideInForce, PersistedStateValid, ValidPersistedState,
                  ValidOverride, TerminalStates, VerdictStates
    <3>3. d.source = "manual_override"
      BY <2>1, <3>2 DEF DecisionAt
    <3>4. state[a] \in VerdictStates => verdict[a] # "NONE"
      BY DEF PersistedStateValid, ValidPersistedState, ValidVerdict, VerdictStates
    <3>5. QED
      BY <3>1, <3>2, <3>3, <3>4 DEF IsExactAllow, TerminalStates
  <2>2. CASE ~OverrideInForce(a, t)
    <3>1. /\ d.allowed /\ d.effective = "ALLOW" /\ FallbackDecision(a) = "ALLOW"
          /\ d.artifactState = state[a] /\ d.versioned = (verdict[a] # "NONE")
      BY <1>2, <2>2 DEF DecisionAt
    <3>2. state[a] = "ALLOW" /\ verdict[a] = "ALLOW"
      BY <3>1 DEF FallbackDecision
    <3>3. d.source = "automated"
      BY <2>2, <3>2 DEF DecisionAt
    <3>4. QED
      BY <3>1, <3>2, <3>3 DEF IsExactAllow
  <2>3. QED
    BY <2>1, <2>2
<1>3. QED
  BY <1>1, <1>2

\* Whatever the order of operations, the simple index lists exactly what the tween
\* would serve by the same decision.
THEOREM FilterAgreesWithTween == GateSpec => []ListedIsServed
<1>1. TypeOK /\ PersistedStateValid => ListedIsServed
  BY DecisionsAgree, ConstantsAssumption
     DEF ListedIsServed, Time, ConstantsAssumption
<1>2. QED
  BY <1>1, StoreIsSound, PTL

-----------------------------------------------------------------------------
(* Types. *)

Requests ==
    [stage : Stages, kind : Kinds, route : Routes, asked : SUBSET Artifact,
     asOf : Nat, shown : SUBSET Artifact]

\* A blocked request is recorded under dimensions that the recorder accepts.
LEMMA BlockType ==
  ASSUME GateTypeOK, NEW route \in Routes, NEW sha \in Artifact \cup {Nothing},
         NEW effective \in {"ALLOW", "DENY", "unknown"}, NEW category \in Categories,
         Block(route, sha, effective, category)
  PROVE  counts' \in [Dimensions \cup {Overflow} -> Nat] /\ blocked' \in Nat
<1> DEFINE d == [route |-> route, sha |-> sha, effective |-> effective,
                 category |-> category]
<1>1. d \in Dimensions
  BY DEF Dimensions
<1>2. counts \in [Dimensions \cup {Overflow} -> Nat] /\ blocked \in Nat
  BY DEF GateTypeOK
<1>3. blocked' = blocked + 1
  BY DEF Block
<1>4. \/ counts' = [counts EXCEPT ![d] = @ + 1]
      \/ counts' = [counts EXCEPT ![Overflow] = @ + 1]
  BY DEF Block, RecordBlock
<1> HIDE DEF d
<1>5. QED
  BY <1>1, <1>2, <1>3, <1>4

\* The decision that is counted is one that the recorder knows.
LEMMA DecisionAtType ==
  ASSUME TypeOK, NEW a \in Artifact, NEW t
  PROVE  DecisionAt(a, t).effective \in {"ALLOW", "DENY"}
  BY DEF TypeOK, DecisionAt, OverrideInForce, FallbackDecision, Overrides, ManualDecisions

\* A request stays one, whatever step it takes.
LEMMA StepType ==
  ASSUME GateTypeOK, NEW s \in Session, NEW to \in Requests, Step(s, to)
  PROVE  session' \in [Session -> Requests]
  BY DEF GateTypeOK, Step, Requests

\* A step of a request keeps the types.
LEMMA GateStepType ==
  ASSUME TypeOK, GateTypeOK, GateStep
  PROVE  /\ session' \in [Session -> Requests] /\ arrivals' \in Nat
         /\ counts' \in [Dimensions \cup {Overflow} -> Nat] /\ blocked' \in Nat
<1> DEFINE Typed == /\ session' \in [Session -> Requests] /\ arrivals' \in Nat
                    /\ counts' \in [Dimensions \cup {Overflow} -> Nat]
                    /\ blocked' \in Nat
<1>0. /\ session \in [Session -> Requests] /\ arrivals \in Nat
      /\ counts \in [Dimensions \cup {Overflow} -> Nat] /\ blocked \in Nat
  BY DEF GateTypeOK, Requests
<1>a. Idle \in Requests
  BY DEF Idle, Requests, Stages, Kinds, Routes
<1>n. NoBlock => counts' = counts /\ blocked' = blocked
  BY DEF NoBlock
<1>1. ASSUME NEW s \in Session, NEW t \in Targets, RequestFile(s, t)
      PROVE  Typed
  <2> DEFINE begun == [Idle EXCEPT !.route = IF t.marker = "+e" THEN "+e" ELSE "+f",
                                   !.asked = FileBehind(t)]
  <2>1. t.content \in Artifact /\ FileBehind(t) \in SUBSET Artifact
    BY DEF Targets, FileBehind
  <2>2. begun \in Requests /\ begun.route \in Routes
    BY <1>a, <2>1 DEF Requests, Routes
  <2> HIDE DEF begun
  <2>3. /\ [begun EXCEPT !.stage = "answered", !.shown = FileBehind(t)] \in Requests
        /\ [begun EXCEPT !.stage = "answered"] \in Requests
        /\ [begun EXCEPT !.stage = "resolved", !.asked = {t.content}] \in Requests
    BY <2>1, <2>2 DEF Requests, Stages
  <2>4. session' \in [Session -> Requests]
    BY <1>1, <2>3, StepType DEF RequestFile, begun
  <2>5. arrivals' \in Nat
    BY <1>0, <1>1 DEF RequestFile
  <2>6. NoBlock \/ Block(begun.route, Nothing, "unknown", "identity_unavailable")
    BY <1>1 DEF RequestFile, begun
  <2>7. counts' \in [Dimensions \cup {Overflow} -> Nat] /\ blocked' \in Nat
    BY <1>0, <1>n, <2>2, <2>6, BlockType DEF Categories
  <2>8. QED
    BY <2>4, <2>5, <2>7
<1>2. ASSUME NEW s \in Session, NEW S \in SUBSET Artifact, RequestPage(s, S)
      PROVE  Typed
  <2>1. [Idle EXCEPT !.stage = "resolved", !.kind = "page", !.asked = S] \in Requests
    BY <1>a DEF Requests, Stages, Kinds
  <2>2. QED
    BY <1>0, <1>2, <1>n, <2>1, StepType DEF RequestPage
<1>3. ASSUME NEW s \in Session, TakeTime(s)
      PROVE  Typed
  <2>0. clock \in Nat
    BY DEF TypeOK
  <2>1. [session[s] EXCEPT !.stage = "timed", !.asOf = clock] \in Requests
    BY <1>0, <2>0 DEF Requests, Stages
  <2>2. QED
    BY <1>0, <1>3, <1>n, <2>1, StepType DEF TakeTime
<1>4. ASSUME NEW s \in Session
      PROVE  /\ [session[s] EXCEPT !.stage = "answered"] \in Requests
             /\ \A S \in SUBSET Artifact :
                  [session[s] EXCEPT !.stage = "decided", !.shown = S] \in Requests
             /\ session[s].route \in Routes /\ session[s].asked \in SUBSET Artifact
  BY <1>0 DEF Requests, Stages
<1>5. ASSUME NEW s \in Session, ReadDecisions(s)
      PROVE  Typed
  <2>1. Granted(s) \in SUBSET Artifact
    BY <1>4 DEF Granted
  <2>2. session' \in [Session -> Requests]
    BY <1>4, <1>5, <2>1, StepType DEF ReadDecisions
  <2>3. \/ NoBlock
        \/ \E a \in session[s].asked :
             Block(session[s].route, a, DecisionAt(a, session[s].asOf).effective,
                   "not_allowed")
    BY <1>5 DEF ReadDecisions
  <2>4. counts' \in [Dimensions \cup {Overflow} -> Nat] /\ blocked' \in Nat
    <3>1. CASE NoBlock
      BY <1>0, <1>n, <3>1
    <3>2. ASSUME NEW a \in session[s].asked,
                 Block(session[s].route, a, DecisionAt(a, session[s].asOf).effective,
                       "not_allowed")
          PROVE  counts' \in [Dimensions \cup {Overflow} -> Nat] /\ blocked' \in Nat
      <4>1. a \in Artifact
        BY <1>4
      <4>2. DecisionAt(a, session[s].asOf).effective \in {"ALLOW", "DENY", "unknown"}
        BY <4>1, DecisionAtType
      <4>3. QED
        BY <1>4, <3>2, <4>1, <4>2, BlockType DEF Categories
    <3>3. QED
      BY <2>3, <3>1, <3>2
  <2>5. QED
    BY <1>0, <1>5, <2>2, <2>4 DEF ReadDecisions
<1>6. ASSUME NEW s \in Session, ReadFails(s)
      PROVE  Typed
  <2>1. session' \in [Session -> Requests]
    BY <1>4, <1>6, StepType DEF ReadFails
  <2>2. \/ NoBlock
        \/ \E a \in session[s].asked :
             Block(session[s].route, a, "unknown", "store_unavailable")
    BY <1>6 DEF ReadFails
  <2>3. counts' \in [Dimensions \cup {Overflow} -> Nat] /\ blocked' \in Nat
    BY <1>0, <1>4, <1>n, <2>2, BlockType DEF Categories
  <2>4. QED
    BY <1>0, <1>6, <2>1, <2>3 DEF ReadFails
<1>7. ASSUME NEW s \in Session, Answer(s) \/ Leave(s)
      PROVE  Typed
  BY <1>0, <1>4, <1>7, <1>a, <1>n, StepType DEF Answer, Leave
<1>8. QED
  BY <1>1, <1>2, <1>3, <1>5, <1>6, <1>7 DEF GateStep

\* The observer notes artifacts.
LEMMA ObserveType ==
  ASSUME GateTypeOK, session' \in [Session -> Requests], Observe
  PROVE  allowedSeen' \in [Session -> SUBSET Artifact]
<1>1. ASSUME NEW s \in Session
      PROVE  allowedSeen[s] \cup {a \in session'[s].asked : Allowed(a)'}
               \in SUBSET Artifact
  BY DEF GateTypeOK, Requests
<1>2. QED
  BY <1>1 DEF Observe

\* Every reachable state of the gate is well typed (the tween, the filter, the recorder).
THEOREM GateTypeCorrect == GateSpec => []GateTypeOK
<1>1. GateInit => GateTypeOK
  BY DEF GateInit, GateTypeOK, Idle, Stages, Kinds, Routes
<1>2. TypeOK /\ GateTypeOK /\ [GateNext]_<<vars, gateVars>> => GateTypeOK'
  <2> SUFFICES ASSUME TypeOK, GateTypeOK, [GateNext]_<<vars, gateVars>>
               PROVE  GateTypeOK'
    OBVIOUS
  <2>1. CASE Next /\ UNCHANGED <<session, arrivals, counts, blocked>> /\ Observe
    <3>1. /\ session' \in [Session -> Requests] /\ arrivals' \in Nat
          /\ counts' \in [Dimensions \cup {Overflow} -> Nat] /\ blocked' \in Nat
      BY <2>1 DEF GateTypeOK, Requests
    <3>2. QED
      BY <2>1, <3>1, ObserveType DEF GateTypeOK, Requests
  <2>2. CASE GateStep /\ UNCHANGED vars /\ Observe
    BY <2>2, GateStepType, ObserveType DEF GateTypeOK, Requests
  <2>3. CASE UNCHANGED <<vars, gateVars>>
    BY <2>3 DEF gateVars, GateTypeOK
  <2>4. QED
    BY <2>1, <2>2, <2>3 DEF GateNext
<1>3. QED
  BY <1>1, <1>2, StoreIsSound, PTL DEF GateSpec

-----------------------------------------------------------------------------
(* What is served was allowed while the request was under way. *)

\* The answer of the reader as of the time t.
AllowedAt(a, t) ==
    IF OverrideInForce(a, t) THEN override[a].decision = "ALLOW"
    ELSE FallbackDecision(a) = "ALLOW" /\ cooldown[a] <= t

\* The field that the filter reads.
LEMMA AllowedField ==
  ASSUME NEW a, NEW t
  PROVE  DecisionAt(a, t).allowed <=> AllowedAt(a, t)
  BY DEF DecisionAt, AllowedAt

\* At the present time it is what the other readers call allowed.
LEMMA AllowedNow ==
  ASSUME NEW a
  PROVE  Allowed(a) <=> AllowedAt(a, clock)
  BY DEF Allowed, AllowedAt, EffectiveDecision, CooldownFinished, OverrideActive,
         OverrideInForce

\* A step of the store either only moves the clock, or keeps it and changes an override
\* only by taking it away or by setting one that is in force.
LEMMA OverrideChanges ==
  ASSUME TypeOK, [Next]_vars, NEW a \in Artifact
  PROVE  \/ UNCHANGED <<override, state, verdict, cooldown>> /\ clock <= clock'
         \/ /\ clock' = clock
            /\ \/ override'[a] = override[a]
               \/ override'[a] = NoOverride
               \/ override'[a].expires > clock /\ override'[a] # NoOverride
                  /\ override'[a].decision \in ManualDecisions
<1> DEFINE Kept == /\ clock' = clock
                   /\ \/ override'[a] = override[a]
                      \/ override'[a] = NoOverride
                      \/ override'[a].expires > clock /\ override'[a] # NoOverride
                         /\ override'[a].decision \in ManualDecisions
<1>0. clock \in Nat /\ override \in [Artifact -> Overrides]
  BY DEF TypeOK
<1>1. CASE Tick
  BY <1>0, <1>1 DEF Tick
<1>2. ASSUME NEW b \in Artifact, NEW r \in Release, NEW at \in 0..clock,
             DiscoverArtifact(b, r, at)
      PROVE  Kept
  BY <1>2 DEF DiscoverArtifact
<1>3. ASSUME NEW w \in Worker, NEW b \in Artifact, NEW until \in Time,
             ClaimNext(w, b, until)
      PROVE  Kept
  BY <1>3 DEF ClaimNext
<1>4. ASSUME NEW now \in 0..clock, RecoverExpiredClaims(now)
      PROVE  Kept
  BY <1>4 DEF RecoverExpiredClaims
<1>5. ASSUME NEW c \in claims, NEW decision \in VerdictStates, NEW until \in Time,
             RecordVerdict(c, decision, until)
      PROVE  Kept
  BY <1>5 DEF RecordVerdict
<1>6. ASSUME NEW c \in claims, MarkAnalysisError(c)
      PROVE  Kept
  BY <1>6 DEF MarkAnalysisError
<1>7. ASSUME NEW b \in Artifact, NEW decision \in ManualDecisions,
             NEW expires \in Time \cup {Never}, SetManualOverride(b, decision, expires)
      PROVE  Kept
  <2>1. clock' = clock /\ expires > clock
        /\ override' =
             [override EXCEPT ![b] = [decision |-> decision, expires |-> expires]]
    BY <1>7 DEF SetManualOverride
  <2>2. CASE a = b
    <3>1. override'[a] = [decision |-> decision, expires |-> expires]
      BY <1>0, <2>1, <2>2
    <3>2. "NONE" \notin ManualDecisions
      BY DEF ManualDecisions
    <3>3. QED
      BY <2>1, <3>1, <3>2 DEF NoOverride
  <2>3. CASE a # b
    BY <1>0, <2>1, <2>3
  <2>4. QED
    BY <2>2, <2>3
<1>8. ASSUME NEW b \in Artifact, RevokeManualOverride(b)
      PROVE  Kept
  BY <1>0, <1>8 DEF RevokeManualOverride
<1>9. ASSUME NEW b \in Artifact, RequestRescan(b)
      PROVE  Kept
  BY <1>0, <1>9 DEF RequestRescan
<1>10. ASSUME NEW b \in Artifact, NEW mark \in {"enabled", "disabled"},
              SetBaselineEligibility(b, mark)
       PROVE  Kept
  BY <1>10 DEF SetBaselineEligibility
<1>11. CASE UNCHANGED vars
  BY <1>11 DEF vars
<1>12. QED
  BY <1>1, <1>2, <1>3, <1>4, <1>5, <1>6, <1>7, <1>8, <1>9, <1>10, <1>11 DEF Next

\* What the reader would find of an earlier time was so before the step, or is so now: a
\* transaction that commits after the time was taken changes that answer only to what
\* holds at its commit.
LEMMA LateAnswer ==
  ASSUME TypeOK, TypeOK', [Next]_vars, NEW a \in Artifact, NEW t \in Nat, t <= clock,
         AllowedAt(a, t)'
  PROVE  AllowedAt(a, t) \/ Allowed(a)'
<1>1. /\ clock \in Nat /\ cooldown'[a] \in Nat /\ override[a] \in Overrides
      /\ override'[a] \in Overrides
  BY DEF TypeOK
<1>2. CASE UNCHANGED <<override, state, verdict, cooldown>>
  BY <1>2 DEF AllowedAt, OverrideInForce, FallbackDecision
<1>3. CASE clock' = clock
  <2>1. CASE override'[a] = override[a] /\ OverrideInForce(a, t)
    BY <2>1 DEF AllowedAt, OverrideInForce
  <2>2. CASE ~OverrideInForce(a, t)'
    <3>1. ~OverrideInForce(a, clock)'
      BY <1>1, <1>3, <2>2 DEF OverrideInForce, Overrides, NoOverride
    <3>2. FallbackDecision(a)' = "ALLOW" /\ cooldown'[a] <= clock'
      BY <1>1, <1>3, <2>2 DEF AllowedAt
    <3>3. AllowedAt(a, clock)'
      BY <3>1, <3>2 DEF AllowedAt
    <3>4. (Allowed(a) <=> AllowedAt(a, clock))'
      BY DEF Allowed, AllowedAt, EffectiveDecision, CooldownFinished, OverrideActive,
             OverrideInForce
    <3>5. QED
      BY <3>3, <3>4
  <2>3. CASE OverrideInForce(a, t)' /\ override'[a].expires > clock
    BY <1>3, <2>3
       DEF AllowedAt, OverrideInForce, Allowed, EffectiveDecision, CooldownFinished,
           OverrideActive
  <2>4. QED
    BY <1>2, <2>1, <2>2, <2>3, OverrideChanges DEF OverrideInForce
<1>4. QED
  BY <1>2, <1>3, OverrideChanges

\* What the request has seen covers what it will be told, and then what it shows.
GateInv ==
    \A s \in Session :
        /\ session[s].stage = "timed" =>
             /\ session[s].asOf <= clock
             /\ \A a \in session[s].asked :
                  AllowedAt(a, session[s].asOf) => a \in allowedSeen[s]
        /\ session[s].stage \in {"decided", "answered"} =>
             session[s].shown \subseteq allowedSeen[s]
        /\ session[s].stage \in {"idle", "resolved", "timed"} => session[s].shown = {}

\* What is granted was seen to be allowed.
LEMMA GrantedWasSeen ==
  ASSUME GateInv, NEW s \in Session, session[s].stage = "timed"
  PROVE  Granted(s) \subseteq allowedSeen[s]
<1> SUFFICES ASSUME NEW a \in Granted(s)
             PROVE  a \in allowedSeen[s]
  OBVIOUS
<1>1. a \in session[s].asked /\ DecisionAt(a, session[s].asOf).allowed
  BY DEF Granted, IsExactAllow
<1>2. AllowedAt(a, session[s].asOf)
  BY <1>1, AllowedField
<1>3. QED
  BY <1>1, <1>2 DEF GateInv

\* A request that the tween passes to the handler without a decision stands for no
\* release file.
LEMMA HandlerShowsNothing ==
  ASSUME NEW t \in Targets, Resolve(t) = "handler"
  PROVE  FileBehind(t) = {}
  BY DEF Resolve, FileBehind

\* No step of the store or of a request breaks what was seen.
LEMMA NextGateInv ==
  ASSUME TypeOK, TypeOK', GateTypeOK, GateTypeOK', GateInv,
         [GateNext]_<<vars, gateVars>>
  PROVE  GateInv'
<1> SUFFICES ASSUME NEW s \in Session
             PROVE  /\ session'[s].stage = "timed" =>
                         /\ session'[s].asOf <= clock'
                         /\ \A a \in session'[s].asked :
                              AllowedAt(a, session[s].asOf)' => a \in allowedSeen'[s]
                    /\ session'[s].stage \in {"decided", "answered"} =>
                         session'[s].shown \subseteq allowedSeen'[s]
                    /\ session'[s].stage \in {"idle", "resolved", "timed"} =>
                         session'[s].shown = {}
  BY DEF GateInv
<1>0. /\ session \in [Session -> Requests] /\ session' \in [Session -> Requests]
      /\ clock \in Nat /\ clock' \in Nat
  BY DEF GateTypeOK, Requests, TypeOK
<1>o. Observe /\ session'[s].stage # "idle" =>
        allowedSeen'[s] = allowedSeen[s] \cup {a \in session'[s].asked : Allowed(a)'}
  BY DEF Observe
<1>1. CASE session'[s] = session[s] /\ Observe /\ [Next]_vars
  <2>1. ASSUME session[s].stage = "timed"
        PROVE  /\ session'[s].asOf <= clock'
               /\ \A a \in session'[s].asked :
                    AllowedAt(a, session[s].asOf)' => a \in allowedSeen'[s]
    <3>1. PICK t \in Nat : t = session[s].asOf
      BY <1>0 DEF Requests
    <3>2. t <= clock
      BY <2>1, <3>1 DEF GateInv
    <3>3. t <= clock'
      <4>1. CASE Artifact = {}
        <5>1. clock <= clock'
          BY <1>0, <1>1 DEF Next, Tick, DiscoverArtifact, ClaimNext,
             RecoverExpiredClaims, RecordVerdict, MarkAnalysisError, SetManualOverride,
             RevokeManualOverride, RequestRescan, SetBaselineEligibility, vars
        <5>2. QED
          BY <1>0, <3>2, <5>1
      <4>2. CASE Artifact # {}
        BY <1>0, <1>1, <3>2, <4>2, OverrideChanges
      <4>3. QED
        BY <4>1, <4>2
    <3>4. ASSUME NEW a \in session[s].asked, AllowedAt(a, t)'
          PROVE  a \in allowedSeen'[s]
      <4>1. a \in Artifact
        BY <1>0 DEF Requests
      <4>2. AllowedAt(a, t) \/ Allowed(a)'
        BY <1>1, <3>2, <3>4, <4>1, LateAnswer
      <4>3. AllowedAt(a, t) => a \in allowedSeen[s]
        BY <2>1, <3>1 DEF GateInv
      <4>4. QED
        BY <1>1, <1>o, <2>1, <4>2, <4>3
    <3>5. ASSUME NEW a \in session'[s].asked, AllowedAt(a, session[s].asOf)'
          PROVE  AllowedAt(a, t)'
      BY <1>1, <3>1, <3>5 DEF AllowedAt, OverrideInForce
    <3>6. QED
      BY <1>1, <3>1, <3>3, <3>4, <3>5
  <2>2. ASSUME session[s].stage \in {"decided", "answered"}
        PROVE  session'[s].shown \subseteq allowedSeen'[s]
    BY <1>1, <1>o, <2>2 DEF GateInv
  <2>3. QED
    BY <1>1, <2>1, <2>2 DEF GateInv
<1>2. CASE GateStep /\ UNCHANGED vars /\ Observe
  <2>v. /\ clock' = clock
        /\ \A a \in Artifact : Allowed(a)' = Allowed(a)
    BY <1>2 DEF vars, Allowed, EffectiveDecision, CooldownFinished, OverrideActive,
                FallbackDecision
  <2>s. /\ session'[s].stage # "idle" => allowedSeen[s] \subseteq allowedSeen'[s]
        /\ session[s].shown \in SUBSET Artifact
    BY <1>0, <1>2, <1>o DEF Requests
  <2>0. CASE session'[s] = session[s]
    <3>1. ASSUME session[s].stage = "timed"
          PROVE  /\ session'[s].asOf <= clock'
                 /\ \A a \in session'[s].asked :
                      AllowedAt(a, session[s].asOf)' => a \in allowedSeen'[s]
      <4>1. ASSUME NEW a \in session'[s].asked, AllowedAt(a, session[s].asOf)'
            PROVE  AllowedAt(a, session[s].asOf)
        BY <1>2, <2>0, <4>1 DEF AllowedAt, OverrideInForce, FallbackDecision, vars
      <4>2. QED
        BY <2>v, <2>s, <2>0, <3>1, <4>1 DEF GateInv
    <3>2. QED
      BY <2>0, <2>s, <3>1 DEF GateInv
  <2>1. ASSUME NEW t \in Targets, RequestFile(s, t)
        PROVE  /\ session'[s].stage # "timed" /\ session'[s].stage # "decided"
               /\ session'[s].shown = {}
    <3> DEFINE begun == [Idle EXCEPT !.route = IF t.marker = "+e" THEN "+e" ELSE "+f",
                                     !.asked = FileBehind(t)]
    <3>1. begun.shown = {} /\ begun \in Requests
      <4>1. FileBehind(t) \in SUBSET Artifact
        BY DEF FileBehind, Targets
      <4>2. Idle \in Requests /\ Idle.shown = {}
        BY DEF Idle, Requests, Stages, Kinds, Routes
      <4>3. QED
        BY <4>1, <4>2 DEF Requests, Routes
    <3> HIDE DEF begun
    <3>2. \/ Step(s, [begun EXCEPT !.stage = "answered", !.shown = FileBehind(t)])
             /\ Resolve(t) = "handler"
          \/ Step(s, [begun EXCEPT !.stage = "answered"])
          \/ Step(s, [begun EXCEPT !.stage = "resolved", !.asked = {t.content}])
      BY <2>1 DEF RequestFile, begun
    <3>3. CASE Step(s, [begun EXCEPT !.stage = "answered", !.shown = FileBehind(t)])
               /\ Resolve(t) = "handler"
      BY <1>0, <3>1, <3>3, HandlerShowsNothing DEF Step, Requests
    <3>4. CASE Step(s, [begun EXCEPT !.stage = "answered"])
      BY <1>0, <3>1, <3>4 DEF Step, Requests
    <3>5. CASE Step(s, [begun EXCEPT !.stage = "resolved", !.asked = {t.content}])
      BY <1>0, <3>1, <3>5 DEF Step, Requests
    <3>6. QED
      BY <3>2, <3>3, <3>4, <3>5
  <2>2. ASSUME NEW S \in SUBSET Artifact, RequestPage(s, S)
        PROVE  session'[s].stage = "resolved" /\ session'[s].shown = {}
    BY <1>0, <2>2 DEF RequestPage, Step, Idle
  <2>3. ASSUME TakeTime(s)
        PROVE  /\ session'[s].stage = "timed" /\ session'[s].asOf = clock
               /\ session'[s].shown = {}
               /\ \A a \in session'[s].asked :
                    AllowedAt(a, session[s].asOf)' => a \in allowedSeen'[s]
    <3>1. /\ session'[s].stage = "timed" /\ session'[s].asOf = clock
          /\ session'[s].shown = session[s].shown /\ session[s].stage = "resolved"
      BY <1>0, <2>3 DEF TakeTime, Step, Requests
    <3>2. ASSUME NEW a \in session'[s].asked, AllowedAt(a, session[s].asOf)'
          PROVE  Allowed(a)'
      BY <2>v, <3>1, <3>2
         DEF AllowedAt, OverrideInForce, Allowed, EffectiveDecision, CooldownFinished,
             OverrideActive
    <3>3. QED
      BY <1>2, <1>o, <3>1, <3>2 DEF GateInv
  <2>4. ASSUME ReadDecisions(s)
        PROVE  /\ session'[s].stage \in {"decided", "answered"}
               /\ session'[s].shown \subseteq allowedSeen[s]
    <3>1. session[s].stage = "timed"
      BY <2>4 DEF ReadDecisions
    <3>2. session[s].shown = {} /\ Granted(s) \subseteq allowedSeen[s]
      BY <3>1, GrantedWasSeen DEF GateInv
    <3>3. /\ session'[s].stage \in {"decided", "answered"}
          /\ session'[s].shown = Granted(s) \/ session'[s].shown = session[s].shown
      BY <1>0, <2>4 DEF ReadDecisions, Step, Requests
    <3>4. QED
      BY <3>2, <3>3
  <2>5. ASSUME ReadFails(s)
        PROVE  session'[s].stage = "answered" /\ session'[s].shown = {}
    <3>1. session[s].stage = "timed" /\ session'[s].stage = "answered"
          /\ session'[s].shown = session[s].shown
      BY <1>0, <2>5 DEF ReadFails, Step, Requests
    <3>2. QED
      BY <3>1 DEF GateInv
  <2>6. ASSUME Answer(s)
        PROVE  session'[s].stage = "answered" /\ session'[s].shown \subseteq allowedSeen[s]
    <3>1. session[s].stage = "decided" /\ session'[s].stage = "answered"
          /\ session'[s].shown = session[s].shown
      BY <1>0, <2>6 DEF Answer, Step, Requests
    <3>2. QED
      BY <3>1 DEF GateInv
  <2>7. ASSUME Leave(s)
        PROVE  session'[s].stage = "idle" /\ session'[s].shown = {}
    BY <1>0, <2>7 DEF Leave, Step, Idle
  <2>8. ASSUME NEW r \in Session, r # s,
               \/ \E t \in Targets : RequestFile(r, t)
               \/ \E S \in SUBSET Artifact : RequestPage(r, S)
               \/ TakeTime(r) \/ ReadDecisions(r) \/ ReadFails(r) \/ Answer(r) \/ Leave(r)
        PROVE  session'[s] = session[s]
    BY <1>0, <2>8 DEF RequestFile, RequestPage, TakeTime, ReadDecisions, ReadFails,
       Answer, Leave, Step
  <2>9. CASE \/ \E t \in Targets : RequestFile(s, t)
             \/ \E S \in SUBSET Artifact : RequestPage(s, S)
             \/ TakeTime(s) \/ ReadDecisions(s) \/ ReadFails(s) \/ Answer(s) \/ Leave(s)
    <3>1. CASE \E t \in Targets : RequestFile(s, t)
      BY <2>1, <3>1
    <3>2. CASE \E S \in SUBSET Artifact : RequestPage(s, S)
      BY <2>2, <3>2
    <3>3. CASE TakeTime(s)
      BY <1>0, <2>3, <2>v, <3>3
    <3>4. CASE ReadDecisions(s)
      BY <2>4, <2>s, <3>4
    <3>5. CASE ReadFails(s)
      BY <2>5, <3>5
    <3>6. CASE Answer(s)
      BY <2>6, <2>s, <3>6
    <3>7. CASE Leave(s)
      BY <2>7, <3>7
    <3>8. QED
      BY <2>9, <3>1, <3>2, <3>3, <3>4, <3>5, <3>6, <3>7
  <2>10. QED
    BY <1>2, <2>0, <2>8, <2>9 DEF GateStep
<1>3. CASE UNCHANGED <<vars, gateVars>>
  BY <1>3 DEF GateInv, gateVars, vars, AllowedAt, OverrideInForce, FallbackDecision
<1>4. QED
  BY <1>1, <1>2, <1>3 DEF GateNext

\* What is sent or listed was allowed at some instant of the request, whatever the store
\* went through since the reader took the time.
THEOREM ServedDuringRequest == GateSpec => []ServedWasAllowed
<1>1. GateInit => GateInv
  BY DEF GateInit, GateInv, Idle
<1>2. GateInv => ServedWasAllowed
  BY DEF GateInv, ServedWasAllowed
<1>3. TypeOK /\ TypeOK' /\ GateTypeOK /\ GateTypeOK' /\ GateInv
        /\ [GateNext]_<<vars, gateVars>> => GateInv'
  BY NextGateInv
<1>4. QED
  BY <1>1, <1>2, <1>3, StoreIsSound, GateTypeCorrect, PTL DEF GateSpec

-----------------------------------------------------------------------------
(* Sums over finite sets, as MapThenSumSet computes them.                  *)

\* A set of finite sets, all within one, has a least member.
LEMMA LeastSet ==
  ASSUME NEW S, IsFiniteSet(S), NEW B \in SUBSET SUBSET S, B # {}
  PROVE  \E T \in B : \A U \in B : U \subseteq T => U = T
<1>1. B \subseteq FiniteSubsetsOf(S)
  BY FS_FiniteSubsetsOfFinite
<1>2. PICK T \in B : \A U \in B : ~(<<U, T>> \in StrictSubsetOrdering(S))
  BY <1>1, FS_StrictSubsetOrderingWellFounded, WFMin
<1>3. ASSUME NEW U \in B, U \subseteq T
      PROVE  U = T
  BY <1>2, <1>3 DEF StrictSubsetOrdering
<1> QED
  BY <1>2, <1>3

\* The member of s that a fold takes first.
FirstOf(s) == CHOOSE x \in s : TRUE

Running(c, S, f) ==
  f = [s \in SUBSET S |-> IF s = {} THEN 0 ELSE c[FirstOf(s)] + f[s \ {FirstOf(s)}]]

Total(c, S) == (CHOOSE f : Running(c, S, f))[S]

LEMMA FirstMember ==
  ASSUME NEW s, s # {}
  PROVE  FirstOf(s) \in s
  BY DEF FirstOf

\* MapThenSumSet is the total.
LEMMA SumIsTotal ==
  ASSUME NEW c, NEW S
  PROVE  MapThenSumSet(LAMBDA d : c[d], S) = Total(c, S)
  BY DEF MapThenSumSet, MapThenFoldSet, Total, FirstOf, Running

\* Running totals over different sets agree where both are defined.
LEMMA RunningUnique ==
  ASSUME NEW c, NEW S, NEW T, NEW f, NEW g, Running(c, S, f), Running(c, T, g),
         NEW U, IsFiniteSet(U), U \subseteq S, U \subseteq T
  PROVE  f[U] = g[U]
<1> DEFINE Bad == {V \in SUBSET U : f[V] # g[V]}
<1>1. SUFFICES ASSUME Bad # {}
               PROVE  FALSE
  OBVIOUS
<1>2. PICK V \in Bad : \A W \in Bad : W \subseteq V => W = V
  <2> Bad \in SUBSET SUBSET U
    OBVIOUS
  <2> HIDE DEF Bad
  <2> QED
    BY <1>1, LeastSet
<1>3. /\ f[V] = IF V = {} THEN 0 ELSE c[FirstOf(V)] + f[V \ {FirstOf(V)}]
      /\ g[V] = IF V = {} THEN 0 ELSE c[FirstOf(V)] + g[V \ {FirstOf(V)}]
  <2>1. V \in SUBSET S /\ V \in SUBSET T
    OBVIOUS
  <2> QED
    BY <2>1 DEF Running
<1>4. CASE V = {}
  BY <1>3, <1>4
<1>5. CASE V # {}
  <2>1. FirstOf(V) \in V
    BY <1>5, FirstMember
  <2>2. f[V \ {FirstOf(V)}] = g[V \ {FirstOf(V)}]
    BY <1>2, <2>1
  <2> QED
    BY <1>3, <1>5, <2>2
<1> QED
  BY <1>4, <1>5

\* A finite set has its running totals.
LEMMA RunningExists ==
  ASSUME NEW c, NEW S, IsFiniteSet(S)
  PROVE  Running(c, S, CHOOSE f : Running(c, S, f))
<1> DEFINE Bad == {V \in SUBSET S : ~\E f : Running(c, V, f)}
<1>1. SUFFICES ASSUME Bad # {}
               PROVE  FALSE
  <2>1. S \notin Bad => \E f : Running(c, S, f)
    OBVIOUS
  <2> QED
    BY <1>1, <2>1
<1>2. PICK V \in Bad : \A W \in Bad : W \subseteq V => W = V
  <2> Bad \in SUBSET SUBSET S
    OBVIOUS
  <2> HIDE DEF Bad
  <2> QED
    BY <1>1, LeastSet
<1>3. ASSUME NEW W \in SUBSET V, W # V
      PROVE  Total(c, W) = IF W = {} THEN 0
                           ELSE c[FirstOf(W)] + Total(c, W \ {FirstOf(W)})
  <2>1. PICK f : f = CHOOSE h : Running(c, W, h)
    OBVIOUS
  <2>2. Running(c, W, f)
    BY <1>2, <1>3, <2>1
  <2>3. f[W] = IF W = {} THEN 0 ELSE c[FirstOf(W)] + f[W \ {FirstOf(W)}]
    BY <2>2 DEF Running
  <2>4. Total(c, W) = f[W]
    BY <2>1 DEF Total
  <2>5. ASSUME W # {}
        PROVE  f[W \ {FirstOf(W)}] = Total(c, W \ {FirstOf(W)})
    <3>1. PICK X : X = W \ {FirstOf(W)}
      OBVIOUS
    <3>2. X \subseteq W /\ X # V /\ X \in SUBSET S /\ IsFiniteSet(X)
      BY <1>2, <1>3, <3>1, FS_Subset
    <3>3. PICK g : g = CHOOSE h : Running(c, X, h)
      OBVIOUS
    <3>4. Running(c, X, g)
      BY <1>2, <1>3, <3>2, <3>3
    <3>5. f[X] = g[X]
      BY <2>2, <3>2, <3>4, RunningUnique
    <3> QED
      BY <3>1, <3>3, <3>5 DEF Total
  <2> QED
    BY <2>3, <2>4, <2>5
<1>4. PICK g : g = [s \in SUBSET V |->
                      IF s = {} THEN 0 ELSE c[FirstOf(s)] + Total(c, s \ {FirstOf(s)})]
  OBVIOUS
<1>5. ASSUME NEW s \in SUBSET V, s # {}
      PROVE  g[s \ {FirstOf(s)}] = Total(c, s \ {FirstOf(s)})
  <2>1. PICK X : X = s \ {FirstOf(s)}
    OBVIOUS
  <2>2. X \in SUBSET V /\ X # V
    BY <1>5, <2>1, FirstMember
  <2>3. g[X] = Total(c, X)
    BY <1>3, <1>4, <2>2
  <2> QED
    BY <2>1, <2>3
<1>6. Running(c, V, g)
  BY <1>4, <1>5 DEF Running
<1> QED
  BY <1>2, <1>6

\* The recurrence of the total.
LEMMA TotalOf ==
  ASSUME NEW c, NEW S, IsFiniteSet(S)
  PROVE  Total(c, S) = IF S = {} THEN 0 ELSE c[FirstOf(S)] + Total(c, S \ {FirstOf(S)})
<1>1. PICK f : f = CHOOSE h : Running(c, S, h)
  OBVIOUS
<1>2. Running(c, S, f)
  BY <1>1, RunningExists
<1>3. f[S] = IF S = {} THEN 0 ELSE c[FirstOf(S)] + f[S \ {FirstOf(S)}]
  BY <1>2 DEF Running
<1>4. PICK X : X = S \ {FirstOf(S)}
  OBVIOUS
<1>5. PICK g : g = CHOOSE h : Running(c, X, h)
  OBVIOUS
<1>6. X \subseteq S /\ IsFiniteSet(X)
  BY <1>4, FS_Subset
<1>7. f[X] = g[X]
  BY <1>2, <1>5, <1>6, RunningExists, RunningUnique
<1> QED
  BY <1>1, <1>3, <1>4, <1>5, <1>7 DEF Total

\* A total of naturals is one.
LEMMA TotalType ==
  ASSUME NEW D, NEW c \in [D -> Nat], NEW S \in SUBSET D, IsFiniteSet(S)
  PROVE  Total(c, S) \in Nat
<1> DEFINE Bad == {V \in SUBSET S : Total(c, V) \notin Nat}
<1>1. SUFFICES ASSUME Bad # {}
               PROVE  FALSE
  OBVIOUS
<1>2. PICK V \in Bad : \A W \in Bad : W \subseteq V => W = V
  <2> Bad \in SUBSET SUBSET S
    OBVIOUS
  <2> HIDE DEF Bad
  <2> QED
    BY <1>1, LeastSet
<1>3. IsFiniteSet(V)
  BY FS_Subset
<1>4. V # {}
  <2>1. V = {} => Total(c, V) = 0
    BY <1>3, TotalOf
  <2>2. Total(c, V) \notin Nat
    BY <1>2
  <2> QED
    BY <2>1, <2>2
<1>5. PICK x : x = FirstOf(V)
  OBVIOUS
<1>6. x \in V /\ x \in D
  BY <1>4, <1>5, FirstMember
<1>7. Total(c, V \ {x}) \in Nat
  BY <1>2, <1>6
<1>8. Total(c, V) = c[x] + Total(c, V \ {x})
  BY <1>3, <1>4, <1>5, TotalOf
<1> QED
  BY <1>6, <1>7, <1>8

\* Any member may be taken out of a total, not only the first.
LEMMA TotalTake ==
  ASSUME NEW D, NEW c \in [D -> Nat], NEW S \in SUBSET D, IsFiniteSet(S), NEW m \in S
  PROVE  Total(c, S) = c[m] + Total(c, S \ {m})
<1> DEFINE Bad == {V \in SUBSET S : \E x \in V : Total(c, V) # c[x] + Total(c, V \ {x})}
<1>1. SUFFICES ASSUME Bad # {}
               PROVE  FALSE
  <2>1. S \notin Bad => \A x \in S : Total(c, S) = c[x] + Total(c, S \ {x})
    OBVIOUS
  <2> QED
    BY <1>1, <2>1
<1>2. PICK V \in Bad : \A W \in Bad : W \subseteq V => W = V
  <2> Bad \in SUBSET SUBSET S
    OBVIOUS
  <2> HIDE DEF Bad
  <2> QED
    BY <1>1, LeastSet
<1>3. IsFiniteSet(V)
  BY FS_Subset
<1>4. PICK x \in V : Total(c, V) # c[x] + Total(c, V \ {x})
  BY <1>2
<1>5. PICK y : y = FirstOf(V)
  OBVIOUS
<1>6. y \in V
  BY <1>4, <1>5, FirstMember
<1>7. Total(c, V) = c[y] + Total(c, V \ {y})
  BY <1>3, <1>4, <1>5, TotalOf
<1>8. x # y
  BY <1>4, <1>7
<1>9. PICK W : W = (V \ {y}) \ {x}
  OBVIOUS
<1>10. Total(c, V \ {y}) = c[x] + Total(c, W)
  <2>1. V \ {y} \in SUBSET S /\ V \ {y} # V /\ x \in V \ {y}
    BY <1>6, <1>8
  <2> QED
    BY <1>2, <1>9, <2>1
<1>11. Total(c, V \ {x}) = c[y] + Total(c, W)
  <2>1. V \ {x} \in SUBSET S /\ V \ {x} # V /\ y \in V \ {x} /\ W = (V \ {x}) \ {y}
    BY <1>4, <1>6, <1>8, <1>9
  <2> QED
    BY <1>2, <2>1
<1>12. Total(c, W) \in Nat /\ c[x] \in Nat /\ c[y] \in Nat
  <2>1. W \in SUBSET D /\ IsFiniteSet(W)
    BY <1>3, <1>9, FS_Subset
  <2> QED
    BY <1>6, <2>1, TotalType
<1> QED
  BY <1>4, <1>7, <1>10, <1>11, <1>12

\* A total depends on the values of its members only.
LEMMA TotalSame ==
  ASSUME NEW c, NEW d, NEW S, IsFiniteSet(S), \A x \in S : c[x] = d[x]
  PROVE  Total(c, S) = Total(d, S)
<1> DEFINE Bad == {V \in SUBSET S : Total(c, V) # Total(d, V)}
<1>1. SUFFICES ASSUME Bad # {}
               PROVE  FALSE
  OBVIOUS
<1>2. PICK V \in Bad : \A W \in Bad : W \subseteq V => W = V
  <2> Bad \in SUBSET SUBSET S
    OBVIOUS
  <2> HIDE DEF Bad
  <2> QED
    BY <1>1, LeastSet
<1>3. IsFiniteSet(V)
  BY FS_Subset
<1>4. V # {}
  BY <1>3, TotalOf
<1>5. PICK x : x = FirstOf(V)
  OBVIOUS
<1>6. x \in V
  BY <1>4, <1>5, FirstMember
<1>7. Total(c, V \ {x}) = Total(d, V \ {x})
  BY <1>2, <1>6
<1>8. /\ Total(c, V) = c[x] + Total(c, V \ {x})
      /\ Total(d, V) = d[x] + Total(d, V \ {x})
  BY <1>3, <1>4, <1>5, TotalOf
<1> QED
  BY <1>6, <1>7, <1>8

\* One more of a kind makes one more in all, whether the kind is new or not.
LEMMA TotalRaised ==
  ASSUME NEW D, NEW c \in [D -> Nat], NEW S \in SUBSET D, IsFiniteSet(S), NEW m \in D,
         m \in S \/ c[m] = 0,
         NEW d \in [D -> Nat], d[m] = c[m] + 1, \A x \in D \ {m} : d[x] = c[x]
  PROVE  Total(d, S \cup {m}) = Total(c, S) + 1
<1>1. d \in [D -> Nat] /\ \A x \in D \ {m} : d[x] = c[x]
  OBVIOUS
<1>2. PICK R : R = S \ {m}
  OBVIOUS
<1>3. R \in SUBSET D /\ IsFiniteSet(R) /\ (S \cup {m}) \ {m} = R
  BY <1>2, FS_Subset
<1>4. Total(d, S \cup {m}) = d[m] + Total(d, R)
  <2>1. IsFiniteSet(S \cup {m}) /\ S \cup {m} \in SUBSET D
    BY FS_AddElement
  <2> QED
    BY <1>1, <1>3, <2>1, TotalTake
<1>5. Total(d, R) = Total(c, R)
  BY <1>1, <1>2, <1>3, TotalSame
<1>6. Total(c, R) \in Nat
  BY <1>3, TotalType
<1>7. Total(c, S) = c[m] + Total(c, R)
  <2>1. CASE m \in S
    BY <1>2, <2>1, TotalTake
  <2>2. CASE m \notin S
    <3>1. R = S /\ c[m] = 0
      BY <1>2, <2>2
    <3> QED
      BY <1>6, <3>1
  <2> QED
    BY <2>1, <2>2
<1> QED
  BY <1>1, <1>4, <1>5, <1>6, <1>7

-----------------------------------------------------------------------------
(* Every refusal is counted.                                               *)

Kept == Dimensions \cup {Overflow}

\* The series are a finite table within its limit, and all counters together, the one of
\* the overflow included, are the refusals.
CountsInv ==
    /\ IsFiniteSet(Series) /\ Cardinality(Series) <= MaxSeries
    /\ Total(counts, Series \cup {Overflow}) = blocked

\* The series of the overflow is none of those that count against the limit.
LEMMA OverflowApart == Overflow \notin Dimensions
  BY DEF Overflow, Dimensions, Categories

\* Counting a refusal raises one counter, which is in the table afterwards.
LEMMA RecordKeepsCounts ==
  ASSUME GateTypeOK, CountsInv, NEW d \in Dimensions, RecordBlock(d), blocked' = blocked + 1
  PROVE  CountsInv'
<1>1. PICK c : c = counts
  OBVIOUS
<1>2. PICK S : S = Series
  OBVIOUS
<1>3. /\ c \in [Kept -> Nat] /\ S = {e \in Dimensions : c[e] > 0}
      /\ IsFiniteSet(S) /\ Cardinality(S) \in Nat /\ Cardinality(S) <= MaxSeries
  BY <1>1, <1>2, FS_CardinalityType DEF GateTypeOK, CountsInv, Series, Kept
<1>4. MaxSeries \in Nat
  BY GateAssumption
<1>5. PICK m \in {d, Overflow} :
             /\ counts' = [c EXCEPT ![m] = @ + 1]
             /\ m = d => d \in S \/ Cardinality(S) < MaxSeries
  BY <1>1, <1>2, OverflowApart DEF RecordBlock
<1>6. m \in Kept
  BY <1>5 DEF Kept
<1>7. /\ counts'[m] = c[m] + 1 /\ c[m] \in Nat
      /\ \A e \in Dimensions : e # m => counts'[e] = c[e]
  BY <1>3, <1>5, <1>6 DEF Kept
<1>8. Series' = IF m = d THEN S \cup {d} ELSE S
  <2>1. CASE m = d
    BY <1>3, <1>7, <2>1 DEF Series
  <2>2. CASE m = Overflow
    BY <1>3, <1>7, <2>2, OverflowApart DEF Series
  <2> QED
    BY <1>5, <2>1, <2>2
<1>9. IsFiniteSet(Series') /\ Cardinality(Series') <= MaxSeries
  <2>1. /\ IsFiniteSet(S \cup {d})
        /\ Cardinality(S \cup {d}) = IF d \in S THEN Cardinality(S) ELSE Cardinality(S) + 1
    BY <1>3, FS_AddElement
  <2> QED
    BY <1>3, <1>4, <1>5, <1>8, <2>1
<1>10. PICK T : T = S \cup {Overflow}
  OBVIOUS
<1>11. Series' \cup {Overflow} = T \cup {m}
  BY <1>5, <1>8, <1>10
<1>12. T \in SUBSET Kept /\ IsFiniteSet(T)
  BY <1>3, <1>10, FS_AddElement DEF Kept
<1>13. m \in T \/ c[m] = 0
  BY <1>3, <1>5, <1>7, <1>10
<1>14. Total(counts', T \cup {m}) = Total(c, T) + 1
  <2>1. PICK e : e = counts'
    OBVIOUS
  <2>2. e \in [Kept -> Nat] /\ e[m] = c[m] + 1 /\ \A x \in Kept \ {m} : e[x] = c[x]
    BY <1>3, <1>5, <1>6, <2>1
  <2>3. Total(e, T \cup {m}) = Total(c, T) + 1
    BY <1>3, <1>6, <1>12, <1>13, <2>2, TotalRaised
  <2> QED
    BY <2>1, <2>3
<1>15. Total(c, T) = blocked
  BY <1>1, <1>2, <1>10 DEF CountsInv
<1>16. Total(counts', Series' \cup {Overflow}) = blocked'
  BY <1>5, <1>11, <1>14, <1>15
<1> QED
  BY <1>9, <1>16 DEF CountsInv

\* A step of a request refuses nothing or counts one refusal.
LEMMA RefusalsAreRecorded ==
  ASSUME TypeOK, GateTypeOK, GateStep
  PROVE  \/ NoBlock
         \/ blocked' = blocked + 1 /\ \E d \in Dimensions : RecordBlock(d)
<1>1. ASSUME NEW route \in Routes, NEW sha \in Artifact \cup {Nothing},
             NEW effective \in {"ALLOW", "DENY", "unknown"}, NEW category \in Categories,
             Block(route, sha, effective, category)
      PROVE  blocked' = blocked + 1 /\ \E d \in Dimensions : RecordBlock(d)
  <2>1. PICK d : d = [route |-> route, sha |-> sha, effective |-> effective,
                      category |-> category]
    OBVIOUS
  <2>2. d \in Dimensions
    BY <2>1 DEF Dimensions
  <2> QED
    BY <1>1, <2>1, <2>2 DEF Block
<1>2. ASSUME NEW s \in Session
      PROVE  session[s].route \in Routes /\ session[s].asked \in SUBSET Artifact
  BY DEF GateTypeOK
<1>3. ASSUME NEW s \in Session, NEW t \in Targets, RequestFile(s, t), ~NoBlock
      PROVE  \E route \in Routes : Block(route, Nothing, "unknown", "identity_unavailable")
  <2> DEFINE begun == [Idle EXCEPT !.route = IF t.marker = "+e" THEN "+e" ELSE "+f",
                                   !.asked = FileBehind(t)]
  <2>1. Block(begun.route, Nothing, "unknown", "identity_unavailable")
    BY <1>3 DEF RequestFile
  <2>2. begun.route \in Routes
    BY DEF Idle, Routes
  <2> QED
    BY <2>1, <2>2
<1>4. ASSUME NEW s \in Session, ReadDecisions(s), ~NoBlock
      PROVE  \E a \in Artifact, effective \in {"ALLOW", "DENY"} :
               Block(session[s].route, a, effective, "not_allowed")
  <2>1. PICK a \in session[s].asked :
               Block(session[s].route, a, DecisionAt(a, session[s].asOf).effective,
                     "not_allowed")
    BY <1>4 DEF ReadDecisions
  <2>2. a \in Artifact
    BY <1>2
  <2> QED
    BY <2>1, <2>2, DecisionAtType
<1>5. ASSUME NEW s \in Session, ReadFails(s), ~NoBlock
      PROVE  \E a \in Artifact : Block(session[s].route, a, "unknown", "store_unavailable")
  BY <1>2, <1>5 DEF ReadFails
<1>6. ASSUME NEW s \in Session, ~NoBlock, NEW t \in Targets, RequestFile(s, t)
      PROVE  blocked' = blocked + 1 /\ \E d \in Dimensions : RecordBlock(d)
  BY <1>1, <1>3, <1>6 DEF Categories
<1>7. ASSUME NEW s \in Session, ~NoBlock, ReadDecisions(s) \/ ReadFails(s)
      PROVE  blocked' = blocked + 1 /\ \E d \in Dimensions : RecordBlock(d)
  BY <1>1, <1>2, <1>4, <1>5, <1>7 DEF Categories
<1> QED
  BY <1>6, <1>7 DEF GateStep, RequestPage, TakeTime, Answer, Leave

\* Every refusal of the tween is in the metrics exactly once, and the table of series never
\* grows beyond its limit (record_block of InMemoryBlockMetricRecorder).
THEOREM RefusalsAreCounted == GateSpec => []BlocksAreCounted
<1>1. GateInit => CountsInv
  <2> SUFFICES ASSUME GateInit
               PROVE  CountsInv
    OBVIOUS
  <2>1. PICK c : c = counts
    OBVIOUS
  <2>2. c \in [Kept -> Nat] /\ \A d \in Kept : c[d] = 0
    BY <2>1 DEF GateInit, Kept
  <2>3. Series = {}
    BY <2>1, <2>2 DEF Series, Kept
  <2>4. IsFiniteSet({}) /\ Cardinality({}) = 0
    BY FS_EmptySet
  <2>5. IsFiniteSet({Overflow})
    BY FS_Singleton
  <2>6. Total(c, {}) = 0
    BY <2>4, TotalOf
  <2>7. Total(c, {Overflow}) = c[Overflow] + Total(c, {Overflow} \ {Overflow})
    BY <2>2, <2>5, TotalTake DEF Kept
  <2>8. Total(c, {Overflow}) = 0
    BY <2>2, <2>6, <2>7 DEF Kept
  <2> QED
    BY <2>1, <2>3, <2>4, <2>8, GateAssumption DEF CountsInv, GateInit
<1>2. TypeOK /\ GateTypeOK /\ CountsInv /\ [GateNext]_<<vars, gateVars>> => CountsInv'
  <2> SUFFICES ASSUME TypeOK, GateTypeOK, CountsInv, [GateNext]_<<vars, gateVars>>
               PROVE  CountsInv'
    OBVIOUS
  <2>1. CASE UNCHANGED <<counts, blocked>>
    BY <2>1 DEF CountsInv, Series
  <2>2. CASE GateStep
    BY <2>1, <2>2, RefusalsAreRecorded, RecordKeepsCounts DEF NoBlock
  <2> QED
    BY <2>1, <2>2 DEF GateNext, gateVars
<1>3. CountsInv => BlocksAreCounted
  BY DEF CountsInv, BlocksAreCounted, MapThenSumSet, MapThenFoldSet, Total, Running, FirstOf
<1>4. QED
  BY <1>1, <1>2, <1>3, StoreIsSound, GateTypeCorrect, PTL DEF GateSpec

=============================================================================
