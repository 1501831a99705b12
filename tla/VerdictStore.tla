---------------------------- MODULE VerdictStore ----------------------------
(***************************************************************************)
(* The artifact store of devpi-guardian (verdicts/store.py) with the       *)
(* decision rule that readers apply to what it persists                    *)
(* (verdicts/invariants.py, verdicts/reader.py).                           *)
(*                                                                         *)
(* Every operation runs in one BEGIN IMMEDIATE transaction that also       *)
(* appends its audit event, so an operation is one atomic action.  An      *)
(* operation that raises rolls back and changes nothing: its error paths   *)
(* are the negation of the guard.  A ClaimedArtifact lives in a worker's   *)
(* memory; "claims" keeps every claim ever handed out, so that a late, a   *)
(* repeated or a long forgotten completion can arrive at any time.         *)
(*                                                                         *)
(* Abstractions: a digest is a number (their order is the order of the     *)
(* digests), a time is a number, evidence, scores, versions, actors and    *)
(* reasons are left out, and of the audit log the newest event of each     *)
(* artifact is kept (the chain itself is another component).               *)
(***************************************************************************)
EXTENDS Naturals

CONSTANTS
    Artifact,   \* digests
    Worker,     \* worker ids
    Nobody,     \* owner of a cleared lease
    Release,    \* release file coordinates: stage, project, version, filename
    MaxTime,    \* bound on the clock and on every deadline
    MaxClaims   \* bound on the number of claims issued

ASSUME ConstantsAssumption ==
    /\ Artifact \subseteq Nat
    /\ Nobody \notin Worker
    /\ MaxTime \in Nat
    /\ MaxClaims \in Nat

VARIABLES
    clock,         \* the UTC clock every operation reads
    state,         \* artifacts.state; "MISSING" when there is no row
    discoveredAt,  \* artifacts.discovered_at
    lease,         \* artifacts.lease_owner, lease_expires_at, lease_token, updated_at
    lastError,     \* artifacts.last_error IS NOT NULL
    cooldown,      \* artifacts.cooldown_until; 0 when NULL
    verdict,       \* decision of the current row of verdicts, "NONE" without one
    override,      \* current row of manual_overrides
    baseline,      \* current row of baseline_overrides
    mappings,      \* rows of release_mappings
    claims,        \* every ClaimedArtifact returned so far
    issued,        \* number of lease tokens drawn
    settler,       \* token of the claim that produced the row's result (history)
    trail          \* newest audit event of each artifact

vars == <<clock, state, discoveredAt, lease, lastError, cooldown, verdict,
          override, baseline, mappings, claims, issued, settler, trail>>

-----------------------------------------------------------------------------
Time == 0..MaxTime
Never == MaxTime + 1        \* expires_at IS NULL: later than every clock value

VerdictStates == {"ALLOW", "REVIEW", "DENY"}
TerminalStates == VerdictStates \cup {"ERROR"}
ArtifactStates == TerminalStates \cup {"MISSING", "DISCOVERED", "SCANNING"}
ManualDecisions == {"ALLOW", "DENY"}

NoLease == [owner |-> Nobody, expires |-> 0, token |-> 0, since |-> 0]
Leases == [owner : Worker \cup {Nobody}, expires : Nat, token : Nat, since : Nat]
Claims == [artifact : Artifact, owner : Worker, expires : Nat, token : Nat]

NoOverride == [decision |-> "NONE", expires |-> 0]
Overrides == [decision : ManualDecisions, expires : Nat] \cup {NoOverride}

BaselineMarks == {"unset", "enabled", "disabled"}

AuditActions ==
    {"artifact.discovered", "artifact.claimed", "artifact.lease_expired",
     "artifact.verdict_recorded", "artifact.analysis_error",
     "artifact.override_set", "artifact.override_revoked",
     "artifact.rescan_requested", "baseline.added", "baseline.removed"}
NoEvent == [action |-> "none", previous |-> "DENY", new |-> "DENY", at |-> 0]
Events ==
    [action : AuditActions \cup {"none"},
     previous : ManualDecisions, new : ManualDecisions, at : Nat]

TypeOK ==
    /\ clock \in Nat
    /\ state \in [Artifact -> ArtifactStates]
    /\ discoveredAt \in [Artifact -> Nat]
    /\ lease \in [Artifact -> Leases]
    /\ lastError \in [Artifact -> BOOLEAN]
    /\ cooldown \in [Artifact -> Nat]
    /\ verdict \in [Artifact -> VerdictStates \cup {"NONE"}]
    /\ override \in [Artifact -> Overrides]
    /\ baseline \in [Artifact -> BaselineMarks]
    /\ mappings \in [Artifact -> SUBSET Release]
    /\ claims \subseteq Claims
    /\ issued \in Nat
    /\ settler \in [Artifact -> Nat]
    /\ trail \in [Artifact -> Events]

-----------------------------------------------------------------------------
(* The decision rule.  validate_persisted_state refuses a row combination  *)
(* that the state machine cannot produce and otherwise derives a decision. *)

ValidLease(a) ==
    IF state[a] = "SCANNING"
    THEN lease[a].owner # Nobody /\ lease[a].expires > lease[a].since
    ELSE lease[a] = NoLease

ValidVerdict(a) ==
    state[a] \in VerdictStates => verdict[a] = state[a]

ValidOverride(a) ==
    override[a] # NoOverride => state[a] \in TerminalStates

ValidPersistedState(a) ==
    /\ ValidLease(a)
    /\ lastError[a] <=> state[a] = "ERROR"
    /\ ValidVerdict(a)
    /\ ValidOverride(a)

FallbackDecision(a) ==
    IF state[a] = "ALLOW" /\ verdict[a] = "ALLOW" THEN "ALLOW" ELSE "DENY"

OverrideActive(a) ==
    override[a] # NoOverride /\ override[a].expires > clock

EffectiveDecision(a) ==
    IF OverrideActive(a) THEN override[a].decision ELSE FallbackDecision(a)

\* The cooldown is a window of the automated verdict: a manual decision in
\* force bypasses it.
CooldownFinished(a) ==
    \/ OverrideActive(a)
    \/ cooldown[a] <= clock

\* What the tween, the simple index filter and the release query act on.
Allowed(a) ==
    EffectiveDecision(a) = "ALLOW" /\ CooldownFinished(a)

BaselineEligible(a) == Allowed(a) /\ baseline[a] # "disabled"

-----------------------------------------------------------------------------
Init ==
    /\ clock = 0
    /\ state = [a \in Artifact |-> "MISSING"]
    /\ discoveredAt = [a \in Artifact |-> 0]
    /\ lease = [a \in Artifact |-> NoLease]
    /\ lastError = [a \in Artifact |-> FALSE]
    /\ cooldown = [a \in Artifact |-> 0]
    /\ verdict = [a \in Artifact |-> "NONE"]
    /\ override = [a \in Artifact |-> NoOverride]
    /\ baseline = [a \in Artifact |-> "unset"]
    /\ mappings = [a \in Artifact |-> {}]
    /\ claims = {}
    /\ issued = 0
    /\ settler = [a \in Artifact |-> 0]
    /\ trail = [a \in Artifact |-> NoEvent]

Tick ==
    /\ clock < MaxTime
    /\ clock' = clock + 1
    /\ UNCHANGED <<state, discoveredAt, lease, lastError, cooldown, verdict,
                   override, baseline, mappings, claims, issued, settler, trail>>

Event(action, previous, new, at) ==
    [action |-> action, previous |-> previous, new |-> new, at |-> at]

\* The event that an operation on a appends in its own transaction.
Audit(a, action, previous, new) ==
    trail' = [trail EXCEPT ![a] = Event(action, previous, new, clock)]

-----------------------------------------------------------------------------
(* Discovery and claims. *)

\* A size or origin_url that contradicts the stored row raises: no step.  The
\* caller read "at" before the transaction.  The event says DENY -> DENY
\* whatever the artifact's decision is.
DiscoverArtifact(a, r, at) ==
    /\ r \notin mappings[a]
    /\ state' = [state EXCEPT ![a] = IF @ = "MISSING" THEN "DISCOVERED" ELSE @]
    /\ discoveredAt' =
         [discoveredAt EXCEPT ![a] = IF state[a] = "MISSING" THEN at ELSE @]
    /\ mappings' = [mappings EXCEPT ![a] = @ \cup {r}]
    /\ trail' = [trail EXCEPT ![a] =
                    Event("artifact.discovered", "DENY", "DENY", at)]
    /\ UNCHANGED <<clock, lease, lastError, cooldown, verdict, override,
                   baseline, claims, issued, settler>>

\* ORDER BY discovered_at, sha256 LIMIT 1 among the DISCOVERED rows.
OldestDiscovered(a) ==
    /\ state[a] = "DISCOVERED"
    /\ \A b \in Artifact :
         state[b] = "DISCOVERED" =>
             \/ discoveredAt[a] < discoveredAt[b]
             \/ discoveredAt[a] = discoveredAt[b] /\ a <= b

ClaimNext(w, a, until) ==
    /\ until > clock
    /\ OldestDiscovered(a)
    /\ issued < MaxClaims
    /\ issued' = issued + 1
    /\ state' = [state EXCEPT ![a] = "SCANNING"]
    /\ lease' = [lease EXCEPT ![a] = [owner |-> w, expires |-> until,
                                      token |-> issued + 1, since |-> clock]]
    /\ lastError' = [lastError EXCEPT ![a] = FALSE]
    /\ claims' = claims \cup {[artifact |-> a, owner |-> w, expires |-> until,
                               token |-> issued + 1]}
    /\ Audit(a, "artifact.claimed", "DENY", "DENY")
    /\ UNCHANGED <<clock, discoveredAt, cooldown, verdict, override, baseline,
                   mappings, settler>>

Expired(now) == {a \in Artifact : state[a] = "SCANNING" /\ lease[a].expires <= now}

\* All expired leases in one transaction, one event each.  The caller read
\* "now" before the transaction began.
RecoverExpiredClaims(now) ==
    /\ Expired(now) # {}
    /\ state' = [a \in Artifact |->
                    IF a \in Expired(now) THEN "DISCOVERED" ELSE state[a]]
    /\ lease' = [a \in Artifact |->
                    IF a \in Expired(now) THEN NoLease ELSE lease[a]]
    /\ trail' = [a \in Artifact |->
                    IF a \in Expired(now)
                    THEN Event("artifact.lease_expired", "DENY", "DENY", now)
                    ELSE trail[a]]
    /\ UNCHANGED <<clock, discoveredAt, lastError, cooldown, verdict, override,
                   baseline, mappings, claims, issued, settler>>

-----------------------------------------------------------------------------
(* Completion of a claim: the fence compares owner, expiry and token with  *)
(* the row and the expiry with the clock.                                  *)

\* Faulty variant: the fence forgets the lease token.
HoldsLeaseByOwner(c) ==
    /\ state[c.artifact] = "SCANNING"
    /\ lease[c.artifact].owner = c.owner
    /\ lease[c.artifact].expires = c.expires
    /\ c.expires > clock

HoldsLease(c) ==
    /\ state[c.artifact] = "SCANNING"
    /\ lease[c.artifact].owner = c.owner
    /\ lease[c.artifact].expires = c.expires
    /\ lease[c.artifact].token = c.token
    /\ c.expires > clock

\* COALESCE: the first cooldown window of an artifact is never replaced.
CooldownAfter(a, until) == IF cooldown[a] # 0 THEN cooldown[a] ELSE until

\* A cooldown ("until" > 0) accompanies an ALLOW only.
RecordVerdict(c, decision, until) ==
    LET a == c.artifact IN
    /\ HoldsLease(c)
    /\ until # 0 => decision = "ALLOW"
    /\ verdict' = [verdict EXCEPT ![a] = decision]
    /\ state' = [state EXCEPT ![a] = decision]
    /\ lease' = [lease EXCEPT ![a] = NoLease]
    /\ lastError' = [lastError EXCEPT ![a] = FALSE]
    /\ cooldown' = [cooldown EXCEPT ![a] = CooldownAfter(a, until)]
    /\ settler' = [settler EXCEPT ![a] = c.token]
    /\ Audit(a, "artifact.verdict_recorded", "DENY",
             IF decision = "ALLOW" THEN "ALLOW" ELSE "DENY")
    /\ UNCHANGED <<clock, discoveredAt, override, baseline, mappings, claims,
                   issued>>

\* Faulty variant: an error report is accepted whoever holds the lease now.
MarkAnalysisErrorUnfenced(c) ==
    LET a == c.artifact IN
    /\ state[a] = "SCANNING"
    /\ state' = [state EXCEPT ![a] = "ERROR"]
    /\ lease' = [lease EXCEPT ![a] = NoLease]
    /\ lastError' = [lastError EXCEPT ![a] = TRUE]
    /\ settler' = [settler EXCEPT ![a] = c.token]
    /\ Audit(a, "artifact.analysis_error", "DENY", "DENY")
    /\ UNCHANGED <<clock, discoveredAt, cooldown, verdict, override, baseline,
                   mappings, claims, issued>>

\* The previous verdict stays current: only the state blocks the artifact.
MarkAnalysisError(c) ==
    LET a == c.artifact IN
    /\ HoldsLease(c)
    /\ state' = [state EXCEPT ![a] = "ERROR"]
    /\ lease' = [lease EXCEPT ![a] = NoLease]
    /\ lastError' = [lastError EXCEPT ![a] = TRUE]
    /\ settler' = [settler EXCEPT ![a] = c.token]
    /\ Audit(a, "artifact.analysis_error", "DENY", "DENY")
    /\ UNCHANGED <<clock, discoveredAt, cooldown, verdict, override, baseline,
                   mappings, claims, issued>>

-----------------------------------------------------------------------------
(* Administrator commands. *)

\* ArtifactNotFound and StoreUnavailable are the two ways this guard fails.
AdministratorContext(a) ==
    state[a] # "MISSING" /\ ValidPersistedState(a)

SetManualOverride(a, decision, expires) ==
    /\ expires > clock
    /\ AdministratorContext(a)
    /\ state[a] \in TerminalStates
    /\ override' =
         [override EXCEPT ![a] = [decision |-> decision, expires |-> expires]]
    /\ Audit(a, "artifact.override_set", EffectiveDecision(a), decision)
    /\ UNCHANGED <<clock, state, discoveredAt, lease, lastError, cooldown,
                   verdict, baseline, mappings, claims, issued, settler>>

\* Faulty variant: the row stays current with its decision blanked.
RevokeByBlanking(a) ==
    /\ AdministratorContext(a)
    /\ state[a] \in TerminalStates
    /\ override[a] # NoOverride
    /\ override' = [override EXCEPT ![a].decision = "NONE"]
    /\ Audit(a, "artifact.override_revoked", EffectiveDecision(a),
             FallbackDecision(a))
    /\ UNCHANGED <<clock, state, discoveredAt, lease, lastError, cooldown,
                   verdict, baseline, mappings, claims, issued, settler>>

\* Faulty variant: the event repeats the decision that the override imposed.
RevokeAuditedAsUnchanged(a) ==
    /\ AdministratorContext(a)
    /\ state[a] \in TerminalStates
    /\ override[a] # NoOverride
    /\ override' = [override EXCEPT ![a] = NoOverride]
    /\ Audit(a, "artifact.override_revoked", override[a].decision,
             FallbackDecision(a))
    /\ UNCHANGED <<clock, state, discoveredAt, lease, lastError, cooldown,
                   verdict, baseline, mappings, claims, issued, settler>>

\* An override that has expired can still be revoked.
RevokeManualOverride(a) ==
    /\ AdministratorContext(a)
    /\ state[a] \in TerminalStates
    /\ override[a] # NoOverride
    /\ override' = [override EXCEPT ![a] = NoOverride]
    /\ Audit(a, "artifact.override_revoked", EffectiveDecision(a),
             FallbackDecision(a))
    /\ UNCHANGED <<clock, state, discoveredAt, lease, lastError, cooldown,
                   verdict, baseline, mappings, claims, issued, settler>>

\* Faulty variant: the override in force survives the rescan.
RescanKeepingOverride(a) ==
    /\ AdministratorContext(a)
    /\ state[a] \in TerminalStates
    /\ state' = [state EXCEPT ![a] = "DISCOVERED"]
    /\ lease' = [lease EXCEPT ![a] = NoLease]
    /\ lastError' = [lastError EXCEPT ![a] = FALSE]
    /\ Audit(a, "artifact.rescan_requested", EffectiveDecision(a), "DENY")
    /\ UNCHANGED <<clock, discoveredAt, cooldown, verdict, override, baseline,
                   mappings, claims, issued, settler>>

\* Faulty variant: the error text of the failed analysis is not cleared.
RescanKeepingError(a) ==
    /\ AdministratorContext(a)
    /\ state[a] \in TerminalStates
    /\ state' = [state EXCEPT ![a] = "DISCOVERED"]
    /\ lease' = [lease EXCEPT ![a] = NoLease]
    /\ override' = [override EXCEPT ![a] = NoOverride]
    /\ Audit(a, "artifact.rescan_requested", EffectiveDecision(a), "DENY")
    /\ UNCHANGED <<clock, discoveredAt, lastError, cooldown, verdict, baseline,
                   mappings, claims, issued, settler>>

\* Faulty variant: a rescan forgets the administrator's baseline mark.
RescanClearingBaseline(a) ==
    /\ AdministratorContext(a)
    /\ state[a] \in TerminalStates
    /\ state' = [state EXCEPT ![a] = "DISCOVERED"]
    /\ lease' = [lease EXCEPT ![a] = NoLease]
    /\ lastError' = [lastError EXCEPT ![a] = FALSE]
    /\ override' = [override EXCEPT ![a] = NoOverride]
    /\ baseline' = [baseline EXCEPT ![a] = "unset"]
    /\ Audit(a, "artifact.rescan_requested", EffectiveDecision(a), "DENY")
    /\ UNCHANGED <<clock, discoveredAt, cooldown, verdict, mappings, claims,
                   issued, settler>>

RequestRescan(a) ==
    /\ AdministratorContext(a)
    /\ state[a] \in TerminalStates
    /\ state' = [state EXCEPT ![a] = "DISCOVERED"]
    /\ lease' = [lease EXCEPT ![a] = NoLease]
    /\ lastError' = [lastError EXCEPT ![a] = FALSE]
    /\ override' = [override EXCEPT ![a] = NoOverride]
    /\ Audit(a, "artifact.rescan_requested", EffectiveDecision(a), "DENY")
    /\ UNCHANGED <<clock, discoveredAt, cooldown, verdict, baseline, mappings,
                   claims, issued, settler>>

\* Setting the mark it already has returns early, without an event.
SetBaselineEligibility(a, mark) ==
    /\ AdministratorContext(a)
    /\ mark = "enabled" => Allowed(a)
    /\ baseline[a] # mark
    /\ baseline' = [baseline EXCEPT ![a] = mark]
    /\ Audit(a, IF mark = "enabled" THEN "baseline.added" ELSE "baseline.removed",
             EffectiveDecision(a), EffectiveDecision(a))
    /\ UNCHANGED <<clock, state, discoveredAt, lease, lastError, cooldown,
                   verdict, override, mappings, claims, issued, settler>>

-----------------------------------------------------------------------------
Next ==
    \/ Tick
    \/ \E a \in Artifact, r \in Release, at \in 0..clock :
           DiscoverArtifact(a, r, at)
    \/ \E w \in Worker, a \in Artifact, until \in Time : ClaimNext(w, a, until)
    \/ \E now \in 0..clock : RecoverExpiredClaims(now)
    \/ \E c \in claims, decision \in VerdictStates, until \in Time :
           RecordVerdict(c, decision, until)
    \/ \E c \in claims : MarkAnalysisError(c)
    \/ \E a \in Artifact, decision \in ManualDecisions,
          expires \in Time \cup {Never} : SetManualOverride(a, decision, expires)
    \/ \E a \in Artifact : RevokeManualOverride(a)
    \/ \E a \in Artifact : RequestRescan(a)
    \/ \E a \in Artifact, mark \in {"enabled", "disabled"} :
           SetBaselineEligibility(a, mark)

Spec == Init /\ [][Next]_vars

-----------------------------------------------------------------------------
(* What makes the store correct. *)

\* No sequence of operations persists a row combination that
\* validate_persisted_state refuses: such a row would turn every read of the
\* artifact and every administrator command on it into StoreUnavailable, and no
\* operation could repair it.  An artifact without a row has no lease, no error and
\* no override either.
PersistedStateValid == \A a \in Artifact : ValidPersistedState(a)

\* The result that an artifact shows came from the newest claim on it: a late
\* verdict or error of a claim that was recovered, or that was already settled
\* and followed by a rescan, never lands.
ResultFromNewestClaim ==
    \A a \in Artifact : state[a] \in TerminalStates =>
        \A c \in claims : c.artifact = a => c.token <= settler[a]

\* The strengthening that makes ResultFromNewestClaim inductive: tokens are never
\* reused, and the lease in force carries the newest token of its artifact.
FenceInv ==
    /\ \A c \in claims : c.token <= issued
    /\ \A c, d \in claims : c.token = d.token => c = d
    /\ \A a \in Artifact : state[a] = "SCANNING" =>
         \A c \in claims : c.artifact = a => c.token <= lease[a].token
    /\ ResultFromNewestClaim

\* From the request for a rescan (or the first discovery) to the next verdict the
\* artifact is not served: neither the verdict that is still current nor an
\* override set before it counts.
PendingAnalysisBlocks ==
    \A a \in Artifact : state[a] \notin TerminalStates => ~Allowed(a)

\* Every event that an operation appends (but artifact.discovered, which states DENY also
\* when it maps a further release to an artifact that is allowed) carries the
\* effective decision before and after it, including the literal DENY that
\* record_verdict, claim_next and the lease recovery write; and a decision that
\* changes without an event changed by the passage of time alone.
AuditMatchesDecision ==
    [][\A a \in Artifact :
          /\ trail'[a] # trail[a] /\ trail'[a].action # "artifact.discovered" =>
                /\ trail'[a].previous = EffectiveDecision(a)
                /\ trail'[a].new = EffectiveDecision(a)'
          /\ EffectiveDecision(a)' # EffectiveDecision(a) =>
                clock' # clock \/ trail'[a] # trail[a]]_vars

\* An artifact that an administrator took out of the baselines comes back only by
\* an explicit decision made while it is allowed: no rescan, verdict or override
\* resets the mark.
BaselineOptOutSticks ==
    [][\A a \in Artifact :
          baseline[a] = "disabled" /\ baseline'[a] # "disabled" =>
              Allowed(a) /\ trail'[a].action = "baseline.added"]_vars

-----------------------------------------------------------------------------
(* The artifact table is a fenced queue of analyses. *)

Phase(a) ==
    CASE state[a] = "MISSING" -> "absent"
      [] state[a] = "DISCOVERED" -> "queued"
      [] state[a] = "SCANNING" -> "leased"
      [] OTHER -> "settled"

Queue == INSTANCE FencedQueue WITH
             Item <- Artifact,
             Losable <- {},
             phase <- [a \in Artifact |-> Phase(a)],
             holder <- [a \in Artifact |-> lease[a].token]

\* Refinement: every step of the store is a step of the fenced queue or leaves it
\* alone, so an analysis is settled only through the lease in force.
ImplementsFencedQueue == Queue!QSpec

==============================================================================
