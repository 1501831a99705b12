-------------------------------- MODULE Lineage --------------------------------
(***************************************************************************)
(* How one verdict rests on others: an artifact is analysed against an     *)
(* older release that was allowed when the analysis chose it               *)
(* (baseline/selection.py, release_lookup.py), what that release had is    *)
(* not reported again (baseline/diff.py), and an artifact that is allowed  *)
(* so becomes a baseline itself.  GuardianAnalysisEngine                   *)
(* (worker/analysis.py) runs the analyzers, PolicyEngine decides, and      *)
(* run_once records.  Meanwhile an administrator overrides, revokes,       *)
(* rescans and removes baselines, and leases expire.                       *)
(*                                                                         *)
(* Of the store (VerdictStore) this keeps what a decision depends on; the  *)
(* lease is the job of the worker.  Several workers analyse at once; each  *)
(* reads the store once, when it selects the baseline.                     *)
(***************************************************************************)
EXTENDS Policy

CONSTANTS
    Artifact,    \* digests
    Worker,      \* processes with an analysis worker
    Release,     \* the record of each artifact's file
    MaxEvents    \* bound on commands, faults and reports beyond the limits

Kinds == {"wheel", "sdist", "unknown"}

\* The kind of the file, its compatibility tag (None if it cannot be read), whether
\* the tag is that of a pure Python wheel, the place of its version in the order of
\* PEP 440 (0 if it cannot be parsed), and that of its name in the alphabet.
ASSUME LineageAssumption ==
    /\ None \notin Artifact
    /\ Release \in [Artifact ->
         [kind : Kinds, tag : STRING \cup {None}, universal : BOOLEAN,
          version : Nat, name : Nat]]
    /\ MaxEvents \in Nat

VARIABLES
    content,    \* what the bytes of each digest hold
    state,      \* artifacts.state
    cooldown,   \* "none", "running" or "over"
    manual,     \* the override in force
    removed,    \* taken out of the baselines
    report,     \* the report that the current verdict was decided on
    job,        \* the analysis that each worker is at
    events,     \* number of those so far
    approved,   \* allowed by hand at some time (history)
    faulty      \* the last verdict rests on an analysis in which a step failed (history)

store == <<state, cooldown, manual, removed, report>>
history == <<approved, faulty>>
vars == <<content, store, job, events, history>>

States == {"MISSING", "DISCOVERED", "SCANNING", "ERROR"} \cup Decisions
Settled == {"ERROR"} \cup Decisions

Idle == [stage |-> "idle"]
Selecting(a, other) == [stage |-> "selecting", target |-> a, other |-> other]

\* What the comparison with older releases is to work on.
Selections == [outcome : {"none", "failed"}]
              \cup [outcome : {"selected"}, baseline : Artifact, tier : Tiers]

Jobs ==
    {Idle}
    \cup [stage : {"selecting"}, target : Artifact, other : Artifact \cup {None}]
    \cup [stage : {"examining"}, target : Artifact, other : Artifact \cup {None},
          selection : Selections]
    \cup [stage : {"reporting"}, target : Artifact, report : Reports(Artifact),
          faults : BOOLEAN]

TypeOK ==
    /\ content \in [Artifact -> Contents]
    /\ state \in [Artifact -> States]
    /\ cooldown \in [Artifact -> {"none", "running", "over"}]
    /\ manual \in [Artifact -> {"NONE", "ALLOW", "DENY"}]
    /\ removed \subseteq Artifact
    /\ report \in [Artifact -> Reports(Artifact) \cup {None}]
    /\ job \in [Worker -> Jobs]
    /\ events \in Nat
    /\ approved \subseteq Artifact
    /\ faulty \in [Artifact -> BOOLEAN]

-----------------------------------------------------------------------------
(* Which releases are baselines. *)

\* The effective decision and the cooldown.
Allowed(a) ==
    \/ manual[a] = "ALLOW"
    \/ manual[a] = "NONE" /\ state[a] = "ALLOW" /\ cooldown[a] = "over"

\* Faulty variant: every artifact with a verdict is a candidate.
JudgedRelease(a) == state[a] \in Decisions /\ a \notin removed

\* list_allowed_releases: what is allowed and was not taken out.
AllowedRelease(a) == Allowed(a) /\ a \notin removed

Chain(t) ==
    IF Release[t].kind = "sdist" THEN <<"sdist">>
    ELSE IF Release[t].kind = "unknown" THEN <<>>
    ELSE IF Release[t].tag = None THEN <<"universal_wheel", "sdist">>
    ELSE <<"same_tag", "universal_wheel", "sdist">>

MatchesTier(tier, t, c) ==
    CASE tier = "sdist" -> Release[c].kind = "sdist"
      [] tier = "universal_wheel" ->
           Release[c].kind = "wheel" /\ Release[c].tag # None /\ Release[c].universal
      [] tier = "same_tag" ->
           Release[c].kind = "wheel" /\ Release[c].tag # None
           /\ Release[c].tag = Release[t].tag

\* Older releases; a version that cannot be parsed is older than nothing.
Eligible(t) ==
    {c \in Artifact : /\ AllowedRelease(c) /\ c # t
                      /\ 0 < Release[c].version
                      /\ Release[c].version < Release[t].version}

Matching(tier, t) == {c \in Eligible(t) : MatchesTier(tier, t, c)}

\* The first tier of the chain that has a release, its newest one, and of several
\* files of that version the first by name.
IsBaseline(c, tier, t) ==
    \E i \in DOMAIN Chain(t) :
        /\ tier = Chain(t)[i]
        /\ \A j \in 1..(i - 1) : Matching(Chain(t)[j], t) = {}
        /\ c \in Matching(tier, t)
        /\ \A d \in Matching(tier, t) :
             \/ Release[d].version < Release[c].version
             \/ Release[d].version = Release[c].version
                /\ Release[c].name <= Release[d].name

HasBaseline(t) == \E i \in DOMAIN Chain(t) : Matching(Chain(t)[i], t) # {}

-----------------------------------------------------------------------------
(* The report of the engine. *)

\* Steps of an analysis that can fail: the download of the baseline and each analyzer
\* (an exception, a timeout or the end of the child process).
Faults(j) ==
    {"F8"} \cup (IF j.selection.outcome = "selected" THEN {"open", "F7"} ELSE {})
           \cup (IF j.other # None THEN {"F9"} ELSE {})

Items(analyzer, rules, tier) ==
    {[analyzer |-> analyzer, rule |-> r, tier |-> tier] : r \in rules}

BaselineRules(j, F) ==
    CASE j.selection.outcome = "none" -> {}
      [] j.selection.outcome = "failed" -> {"analyzer_error"}
      [] j.selection.outcome = "selected" ->
           IF F \cap {"open", "F7"} # {} THEN {"analyzer_error"}
           ELSE BaselineFindings(content[j.selection.baseline], content[j.target])

SurfaceRules(j, F) ==
    IF "F8" \in F \/ Release[j.target].kind = "unknown" THEN {"analyzer_error"}
    ELSE SurfaceFindings(Release[j.target].kind, content[j.target])

\* The target takes the part of its own kind.
PairRules(j, F) ==
    IF "F9" \in F THEN {"analyzer_error"}
    ELSE IF Release[j.target].kind = "sdist"
    THEN PairFindings(content[j.target], content[j.other])
    ELSE PairFindings(content[j.other], content[j.target])

StatusOf(rules) == IF "analyzer_error" \in rules THEN "error" ELSE "completed"

\* Faulty variant: without a baseline the step is skipped.
BaselineStatusBySelection(selected, rules) ==
    IF ~selected THEN "skipped" ELSE StatusOf(rules)

\* A lookup that failed is not a first release.
BaselineStatus(selected, rules) ==
    IF ~selected /\ rules = {} THEN "skipped" ELSE StatusOf(rules)

Report(j, F, within) ==
    LET selected == j.selection.outcome = "selected"
        tier == IF selected THEN j.selection.tier ELSE None
        f7 == BaselineRules(j, F)
        f8 == SurfaceRules(j, F)
        f9 == IF j.other = None THEN {} ELSE PairRules(j, F)
    IN [steps |-> [F7 |-> BaselineStatus(selected, f7),
                   F8 |-> StatusOf(f8),
                   F9 |-> IF j.other = None THEN "skipped" ELSE StatusOf(f9)],
        evidence |-> Items("F7", f7, tier) \cup Items("F8", f8, None)
                     \cup Items("F9", f9, None),
        baseline |-> IF selected THEN j.selection.baseline ELSE None,
        tier |-> tier, within |-> within]

-----------------------------------------------------------------------------
(* Analyses. *)

\* Nothing is known yet.
Start ==
    /\ state = [a \in Artifact |-> "MISSING"]
    /\ cooldown = [a \in Artifact |-> "none"]
    /\ manual = [a \in Artifact |-> "NONE"]
    /\ removed = {}
    /\ report = [a \in Artifact |-> None]
    /\ job = [w \in Worker |-> Idle]
    /\ events = 0
    /\ approved = {}
    /\ faulty = [a \in Artifact |-> FALSE]

Init == content \in [Artifact -> Contents] /\ Start

Discover(a) ==
    /\ state[a] = "MISSING"
    /\ state' = [state EXCEPT ![a] = "DISCOVERED"]
    /\ UNCHANGED <<content, cooldown, manual, removed, report, job, events, history>>

\* Files of the other kind of the same release that are known.
Counterparts(a) ==
    {b \in Artifact : /\ state[b] # "MISSING"
                      /\ Release[b].version = Release[a].version
                      /\ {Release[a].kind, Release[b].kind} = {"wheel", "sdist"}}

Event == events < MaxEvents /\ events' = events + 1

\* claim_next and prepare, which passes over a file whose object the quarantine has lost;
\* a preparation that fails is an error of the analysis.
Claim(w, a) ==
    /\ job[w] = Idle
    /\ state[a] = "DISCOVERED"
    /\ state' = [state EXCEPT ![a] = "SCANNING"]
    /\ \E other \in Counterparts(a) \cup {None} :
          /\ job' = [job EXCEPT ![w] = Selecting(a, other)]
          /\ IF other = None /\ Counterparts(a) # {} THEN Event ELSE UNCHANGED events
    /\ UNCHANGED <<content, cooldown, manual, removed, report, history>>

\* select_baseline reads the store in one transaction, or fails.
Select(w) ==
    /\ job[w].stage = "selecting"
    /\ LET t == job[w].target
           go(selection) ==
               job' = [job EXCEPT ![w] =
                   [stage |-> "examining", target |-> t, other |-> job[w].other,
                    selection |-> selection]]
       IN \/ /\ \E c \in Artifact, tier \in Tiers :
                   /\ IsBaseline(c, tier, t)
                   /\ go([outcome |-> "selected", baseline |-> c, tier |-> tier])
             /\ UNCHANGED events
          \/ /\ ~HasBaseline(t)
             /\ go([outcome |-> "none"])
             /\ UNCHANGED events
          \/ go([outcome |-> "failed"]) /\ Event
    /\ UNCHANGED <<content, store, history>>

\* The rest of analyze works on private copies of bytes that never change.  Nothing in it
\* keeps what the analyzers tell within the limits of the policy.
Examine(w) ==
    /\ job[w].stage = "examining"
    /\ \E F \in SUBSET Faults(job[w]), within \in BOOLEAN :
          /\ IF F = {} /\ within THEN UNCHANGED events ELSE Event
          /\ job' = [job EXCEPT ![w] =
               [stage |-> "reporting", target |-> job[w].target,
                report |-> Report(job[w], F, within),
                faults |-> F # {} \/ job[w].selection.outcome = "failed"]]
    /\ UNCHANGED <<content, store, history>>

Refused(j) == j.stage = "reporting" /\ ~ValidReport(j.report)

\* A report that the policy refuses, and any other exception, is an error.
RecordError(w) ==
    /\ job[w] # Idle
    /\ Refused(job[w]) \/ events < MaxEvents
    /\ events' = IF Refused(job[w]) THEN events ELSE events + 1
    /\ state' = [state EXCEPT ![job[w].target] = "ERROR"]
    /\ job' = [job EXCEPT ![w] = Idle]
    /\ UNCHANGED <<content, cooldown, manual, removed, report, history>>

RecordVerdict(w) ==
    LET a == job[w].target
        r == job[w].report
    IN
    /\ job[w].stage = "reporting"
    /\ ValidReport(r)
    /\ state' = [state EXCEPT ![a] = Decision(r)]
    /\ cooldown' = [cooldown EXCEPT ![a] =
                      IF Decision(r) = "ALLOW" /\ @ = "none" THEN "running" ELSE @]
    /\ report' = [report EXCEPT ![a] = r]
    /\ faulty' = [faulty EXCEPT ![a] = job[w].faults]
    /\ job' = [job EXCEPT ![w] = Idle]
    /\ UNCHANGED <<content, manual, removed, events, approved>>

\* The lease expires and is recovered; what the worker still does is refused.
Recover(w) ==
    /\ job[w] # Idle
    /\ Event
    /\ state' = [state EXCEPT ![job[w].target] = "DISCOVERED"]
    /\ job' = [job EXCEPT ![w] = Idle]
    /\ UNCHANGED <<content, cooldown, manual, removed, report, history>>

CooldownEnds(a) ==
    /\ cooldown[a] = "running"
    /\ cooldown' = [cooldown EXCEPT ![a] = "over"]
    /\ UNCHANGED <<content, state, manual, removed, report, job, events, history>>

-----------------------------------------------------------------------------
(* Administrators. *)

SetOverride(a, decision) ==
    /\ state[a] \in Settled
    /\ Event
    /\ manual' = [manual EXCEPT ![a] = decision]
    /\ approved' = IF decision = "ALLOW" THEN approved \cup {a} ELSE approved
    /\ UNCHANGED <<content, state, cooldown, removed, report, job, faulty>>

\* By a command or by its expiry.
OverrideEnds(a) ==
    /\ manual[a] # "NONE"
    /\ Event
    /\ manual' = [manual EXCEPT ![a] = "NONE"]
    /\ UNCHANGED <<content, state, cooldown, removed, report, job, history>>

Rescan(a) ==
    /\ state[a] \in Settled
    /\ Event
    /\ state' = [state EXCEPT ![a] = "DISCOVERED"]
    /\ manual' = [manual EXCEPT ![a] = "NONE"]
    /\ UNCHANGED <<content, cooldown, removed, report, job, history>>

SetEligibility(a, enabled) ==
    /\ state[a] # "MISSING"
    /\ enabled => Allowed(a)
    /\ enabled <=> a \in removed
    /\ Event
    /\ removed' = IF enabled THEN removed \ {a} ELSE removed \cup {a}
    /\ UNCHANGED <<content, state, cooldown, manual, report, job, history>>

-----------------------------------------------------------------------------
(* simulate_policy decides again, on a report made of the stored evidence. *)

\* The release of a has a source distribution and a wheel that are known now.
HasPair(a) ==
    \E s, d \in Artifact :
        /\ state[s] # "MISSING" /\ Release[s].kind = "sdist"
        /\ state[d] # "MISSING" /\ Release[d].kind = "wheel"
        /\ {Release[s].version, Release[d].version} = {Release[a].version}

\* Faulty variant: every analyzer is taken to have completed.
StoredReportWithoutErrors(a) ==
    [report[a] EXCEPT !.steps =
       [F7 |-> IF report[a].baseline = None THEN "skipped" ELSE "completed",
        F8 |-> "completed",
        F9 |-> IF HasPair(a) THEN "completed" ELSE "skipped"]]

\* Errors are taken from the evidence, the pair from what is known now.
StoredReport(a) ==
    LET r == report[a]
        failed(analyzer) ==
            \E e \in r.evidence : e.analyzer = analyzer /\ e.rule = "analyzer_error"
        status(analyzer, ran) ==
            IF failed(analyzer) THEN "error" ELSE IF ran THEN "completed" ELSE "skipped"
    IN [r EXCEPT !.steps =
          [F7 |-> status("F7", r.baseline # None), F8 |-> status("F8", TRUE),
           F9 |-> status("F9", HasPair(a))]]

\* A step that failed is given the reason of one that was skipped, and refused.
StoredReportRefused(a) ==
    \/ StoredReport(a).steps["F7"] = "error" /\ report[a].baseline = None
    \/ StoredReport(a).steps["F9"] = "error" /\ ~HasPair(a)

-----------------------------------------------------------------------------
Next ==
    \/ \E a \in Artifact :
          \/ Discover(a)
          \/ \E w \in Worker : Claim(w, a)
          \/ CooldownEnds(a)
          \/ \E decision \in {"ALLOW", "DENY"} : SetOverride(a, decision)
          \/ OverrideEnds(a)
          \/ Rescan(a)
          \/ \E enabled \in BOOLEAN : SetEligibility(a, enabled)
    \/ \E w \in Worker :
          Select(w) \/ Examine(w) \/ RecordError(w) \/ RecordVerdict(w) \/ Recover(w)

Spec == Init /\ [][Next]_vars

-----------------------------------------------------------------------------
(* What makes the verdicts sound. *)

\* Nothing is laundered through releases: whatever an automatically allowed artifact
\* does by one of the names the comparison looks for (a Python file that starts
\* processes, uses the network or runs code, or that imports a module for it other than
\* os, an executable line, a library, a command, a Python file that cannot be parsed) was
\* there, in the same file, in a release that an administrator once allowed by hand,
\* however long the chain of baselines in between, and although a baseline may be
\* revoked, rescanned or taken out between its selection and the verdict.
NoLaundering ==
    RequireBaseline => \A a \in Artifact : state[a] = "ALLOW" =>
        Evidence(content[a]) \subseteq UNION {Evidence(content[h]) : h \in approved}

\* An analysis in which the lookup, the download of the baseline or an analyzer failed
\* never ends in ALLOW, although assess passes over the finding that reports a failure.
BrokenAnalysisBlocks == \A a \in Artifact : state[a] = "ALLOW" => ~faulty[a]

\* Engine and policy state separately which combinations of steps, baseline and findings
\* are legal, and agree: of the reports that the engine makes, whatever failed, the policy
\* refuses none but those beyond its limits, so that nothing else about its report leaves
\* an artifact in ERROR.
ReportAccepted ==
    \A w \in Worker :
        job[w].stage = "reporting" /\ WithinLimits(job[w].report)
          => ValidReport(job[w].report)

\* Unless a counterpart arrived after the analysis or had no bytes during it, or the
\* lookup of the baseline failed, a simulation with the running policy gives the recorded
\* decision.
SimulationAgrees ==
    \A a \in Artifact :
        /\ state[a] \in Decisions
        /\ report[a].steps["F9"] = "skipped" <=> ~HasPair(a)
        => \/ report[a].baseline = None /\ report[a].steps["F7"] = "error"
           \/ /\ ~StoredReportRefused(a)
              /\ ValidReport(StoredReport(a))
              /\ Decision(StoredReport(a)) = state[a]

================================================================================
