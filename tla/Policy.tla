--------------------------------- MODULE Policy ---------------------------------
(***************************************************************************)
(* The decision on a report (policy/engine.py): PolicyConfig with what     *)
(* __post_init__ demands of it, _validate_report, and assess.              *)
(*                                                                         *)
(* A piece of evidence is the analyzer, the rule and the tier of the       *)
(* baseline; origins, places and texts are left out.  Whether they keep    *)
(* the limits of the policy is one fact of a report: what the engine       *)
(* produces has other limits, or none.                                     *)
(***************************************************************************)
EXTENDS Analyzers, FiniteSetsExt

CONSTANTS
    None,             \* no baseline, no tier, no report
    RequireBaseline,  \* PolicyConfig.require_baseline
    RequirePair,      \* PolicyConfig.require_f9_pair
    Escalated,        \* rules that rule_escalations turns into DENY
    Score             \* the scores of PolicyConfig, by reason

Analyzer == {"F7", "F8", "F9"}
Statuses == {"completed", "skipped", "error"}
Tiers == {"same_tag", "universal_wheel", "sdist"}
Decisions == {"ALLOW", "REVIEW", "DENY"}

\* The limits that PolicyConfig sets to its scores and options.
ValidConfig ==
    /\ RequireBaseline \in BOOLEAN /\ RequirePair \in BOOLEAN
    /\ Escalated \subseteq Rules
    /\ Score \in [{"review", "no_pair", "no_baseline", "error", "deny"} \cup Tiers
                     -> 50..100]
    /\ Score["no_pair"] >= 60 /\ Score["no_baseline"] >= 70 /\ Score["error"] >= 90
    /\ Score["universal_wheel"] >= 60 /\ Score["sdist"] >= 70
    /\ Score["review"] <= Score["no_pair"] /\ Score["no_pair"] <= Score["no_baseline"]
    /\ Score["no_baseline"] <= Score["error"]
    /\ Score["review"] <= Score["same_tag"]
    /\ Score["same_tag"] < Score["universal_wheel"]
    /\ Score["universal_wheel"] < Score["sdist"] /\ Score["sdist"] < Score["deny"]
    /\ Score["deny"] = 100

ASSUME PolicyAssumption == ValidConfig /\ None \notin Tiers

EvidenceItems == [analyzer : Analyzer, rule : Rules, tier : Tiers \cup {None}]

Reports(Baseline) ==
    [steps : [Analyzer -> Statuses], evidence : SUBSET EvidenceItems,
     baseline : Baseline \cup {None}, tier : Tiers \cup {None},
     within : BOOLEAN]

\* What _validate_report demands of the steps and the baseline, and of the evidence.
ValidSteps(r) ==
    /\ r.steps["F8"] # "skipped"
    /\ (r.baseline = None) <=> (r.tier = None)
    /\ r.baseline # None => r.steps["F7"] # "skipped"
    /\ r.baseline = None => r.steps["F7"] # "completed"

ValidEvidence(r) ==
    \A e \in r.evidence :
        /\ r.steps[e.analyzer] # "skipped"
        /\ e.tier = IF e.analyzer = "F7" THEN r.tier ELSE None
        /\ e.rule = "analyzer_error" => r.steps[e.analyzer] = "error"

\* At most 1024 pieces of evidence, no two of which tell one finding in different words,
\* and 4096 canonical paths of changed files; texts of at most 4096 bytes without control
\* characters; at most 1 MiB in all.
WithinLimits(r) == r.within

ValidReport(r) == ValidSteps(r) /\ ValidEvidence(r) /\ WithinLimits(r)

EffectiveAction(e) == IF e.rule \in Escalated THEN "DENY" ELSE Action(e.rule)

\* An analyzer error speaks through the status of its step.
Counted(r) ==
    {e \in r.evidence : e.rule = "analyzer_error" => EffectiveAction(e) = "DENY"}
Failed(r) == {a \in Analyzer : r.steps[a] = "error"}
NoBaseline(r) == RequireBaseline /\ r.baseline = None
NoPair(r) == RequirePair /\ r.steps["F9"] = "skipped"

\* Faulty variant: findings alone decide; an analyzer that failed found nothing.
DecisionByFindings(r) ==
    IF \E e \in Counted(r) : EffectiveAction(e) = "DENY" THEN "DENY"
    ELSE IF Counted(r) # {} \/ NoBaseline(r) \/ NoPair(r) THEN "REVIEW"
    ELSE "ALLOW"

Decision(r) ==
    IF \E e \in Counted(r) : EffectiveAction(e) = "DENY" THEN "DENY"
    ELSE IF Counted(r) # {} \/ Failed(r) # {} \/ NoBaseline(r) \/ NoPair(r) THEN "REVIEW"
    ELSE "ALLOW"

ScoreOf(e) ==
    IF EffectiveAction(e) = "DENY" THEN Score["deny"]
    ELSE IF e.analyzer = "F7" /\ e.tier # None THEN Score[e.tier]
    ELSE Score["review"]

FinalScore(r) ==
    Max({0} \cup {ScoreOf(e) : e \in Counted(r)}
            \cup {Score["error"] : a \in Failed(r)}
            \cup (IF NoBaseline(r) THEN {Score["no_baseline"]} ELSE {})
            \cup (IF NoPair(r) THEN {Score["no_pair"]} ELSE {}))

================================================================================
