----------------------------- MODULE LineageProofs -----------------------------
(***************************************************************************)
(* Lineage for every set of artifacts, workers and files, whatever the     *)
(* parsers see in a file and whatever the policy's options are.            *)
(*                                                                         *)
(* First what the analyzers promise of any two archives, then what the     *)
(* engine's report says of an analysis, then the invariants.               *)
(***************************************************************************)
EXTENDS Lineage, TLAPS

-----------------------------------------------------------------------------
(* The analyzers. *)

\* Every finding is one of the rules.
LEMMA WhenIsRule ==
    ASSUME NEW condition, NEW rule \in Rules
    PROVE  When(condition, rule) \subseteq Rules
BY DEF When

LEMMA RefusalsAreRules ==
    ASSUME NEW S, S \subseteq Contents
    PROVE  Refusals(S) \subseteq Rules
BY DEF Refusals, Contents, Rules, DenyRules, ReviewRules

LEMMA BaselineFindingsAreRules ==
    ASSUME NEW b \in Contents, NEW c \in Contents
    PROVE  BaselineFindings(b, c) \subseteq Rules
<1>1. ASSUME NEW p PROVE NewInFile(p, b, c) \subseteq Rules
  BY DEF NewInFile, NewInPython, NewInPth, When, Rules, DenyRules, ReviewRules
<1>2. NewInFiles(b, c) \subseteq Rules
  BY <1>1 DEF NewInFiles
<1>3. NewCommands(b, c) \subseteq Rules
  BY DEF NewCommands, When, Rules, DenyRules, ReviewRules
<1>4. Refusals({b, c}) \subseteq Rules
  BY RefusalsAreRules
<1>5. QED
  BY <1>2, <1>3, <1>4 DEF BaselineFindings

LEMMA SurfaceFindingsAreRules ==
    ASSUME NEW c \in Contents, NEW kind
    PROVE  SurfaceFindings(kind, c) \subseteq Rules
<1>1. ASSUME NEW p PROVE SurfaceOfFile(p, kind, c) \subseteq Rules
  <2>1. SetupFindings(c.files[p]) \subseteq Rules
    BY DEF SetupFindings, When, Rules, DenyRules, ReviewRules
  <2>2. InitFindings(c.files[p]) \subseteq Rules
    BY DEF InitFindings, When, Rules, DenyRules, ReviewRules
  <2>3. ScriptFindings(c.files[p]) \subseteq Rules
    BY DEF ScriptFindings, When, Rules, DenyRules, ReviewRules
  <2>4. {"executable_pth", "customize_module", "native_or_executable"} \subseteq Rules
    BY DEF Rules, DenyRules, ReviewRules
  <2>5. QED
    BY <2>1, <2>2, <2>3, <2>4 DEF SurfaceOfFile, When
<1>2. SurfaceOfFiles(kind, c) \subseteq Rules
  BY <1>1 DEF SurfaceOfFiles
<1>3. ~Usable(c) => {c.refusal} \subseteq Rules
  BY DEF Contents, Usable, Rules, DenyRules, ReviewRules
<1>4. CommandFindings(c) \cup RecordFindings(c) \cup BackendFindings(c) \subseteq Rules
  BY DEF CommandFindings, RecordFindings, BackendFindings, When, Rules, DenyRules,
         ReviewRules
<1>5. QED
  BY <1>2, <1>3, <1>4 DEF SurfaceFindings

LEMMA PairFindingsAreRules ==
    ASSUME NEW s \in Contents, NEW w \in Contents
    PROVE  PairFindings(s, w) \subseteq Rules
<1>1. ASSUME NEW p PROVE InBoth(p, s, w) \subseteq Rules
  BY DEF InBoth, When, Rules, DenyRules, ReviewRules
<1>2. SharedFindings(s, w) \subseteq Rules
  BY <1>1 DEF SharedFindings
<1>3. AddedFindings(s, w) \subseteq Rules
  <2>1. ASSUME NEW p PROVE OnlyInWheel(p, w) \subseteq Rules
    BY DEF OnlyInWheel, When, Rules, DenyRules, ReviewRules
  <2>2. QED
    BY <2>1 DEF AddedFindings
<1>4. MetadataDiffers(s, w) \subseteq Rules
  BY DEF MetadataDiffers, When, Rules, DenyRules, ReviewRules
<1>5. Refusals({s, w}) \subseteq Rules
  BY RefusalsAreRules
<1>6. {"unsupported_wheel_scope", "artifact_identity_mismatch"} \subseteq Rules
  BY DEF Rules, DenyRules, ReviewRules
<1>7. QED
  BY <1>2, <1>3, <1>4, <1>5, <1>6 DEF PairFindings

\* By whose names the evidence of a Python file is listed.
LEMMA PythonEvidence ==
    ASSUME NEW p, NEW f, Suffix(p) = "py", Parsed(f)
    PROVE  EvidenceOf(p, f)
             = {s.name : s \in Flows(f) \cup Risky(f)}
BY DEF EvidenceOf

\* The parsers' view of one file: whatever a changed Python file does by some name, the
\* file of the baseline did by the same name.
LEMMA PythonCarries ==
    ASSUME NEW p, NEW b, NEW c, NewInPython(p, b, c) = {}, Suffix(p) = "py"
    PROVE  EvidenceOf(p, c.files[p]) # {} =>
             /\ p \in Paths(b)
             /\ EvidenceOf(p, c.files[p]) \subseteq EvidenceOf(p, b.files[p])
<1> DEFINE f == c.files[p]
           g == b.files[p]
           flows == IF p \in Paths(b) THEN CarriedFlows(g) ELSE {}
           calls == IF p \in Paths(b) THEN CarriedCalls(g) ELSE {}
<1>1. Parsed(f)
  BY DEF NewInPython
<1>2. ~\E s \in Flows(f) : FlowKey(s) \notin flows
  BY <1>1 DEF NewInPython, When
<1>3. ~\E s \in Risky(f) : CallKey(s) \notin calls
  BY <1>1 DEF NewInPython, When
<1>4. EvidenceOf(p, f) = {s.name : s \in Flows(f) \cup Risky(f)}
  BY <1>1, PythonEvidence
<1>5. ASSUME NEW s \in Flows(f)
      PROVE  p \in Paths(b) /\ s.name \in EvidenceOf(p, g)
  <2>1. FlowKey(s) \in flows
    BY <1>2, <1>5
  <2>2. p \in Paths(b) /\ FlowKey(s) \in CarriedFlows(g)
    BY <2>1
  <2>3. Parsed(g) /\ \E t \in Flows(g) : FlowKey(s) = FlowKey(t)
    BY <2>2 DEF CarriedFlows
  <2>4. PICK t \in Flows(g) : FlowKey(s) = FlowKey(t)
    BY <2>3
  <2>5. s.name = t.name
    BY <2>4 DEF FlowKey
  <2>6. QED
    BY <2>2, <2>3, <2>5, PythonEvidence
<1>6. ASSUME NEW s \in Risky(f)
      PROVE  p \in Paths(b) /\ s.name \in EvidenceOf(p, g)
  <2>1. p \in Paths(b) /\ CallKey(s) \in CarriedCalls(g)
    BY <1>3, <1>6
  <2>2. Parsed(g)
        /\ \E t \in Sites(g) :
             /\ \/ t.kind = "import"
                \/ t.kind = "call" /\ Effect(t.name) \in RiskyEffects
             /\ CallKey(s) = CallKey(t)
    BY <2>1 DEF CarriedCalls
  <2>3. PICK t \in Sites(g) :
             /\ \/ t.kind = "import"
                \/ t.kind = "call" /\ Effect(t.name) \in RiskyEffects
             /\ CallKey(s) = CallKey(t)
    BY <2>2
  <2>4. s.name = t.name
    BY <2>3 DEF CallKey
  <2>5. Effect(t.name) \in RiskyEffects
    BY <2>4, <1>6 DEF Risky, Acts
  <2>6. CASE t.kind = "import"
    BY <2>1, <2>2, <2>4, <2>5, <2>6, PythonEvidence DEF Risky, Acts
  <2>7. CASE t.kind = "call" /\ <<t.line, t.name>> \notin FlowSinks(g)
    BY <2>1, <2>2, <2>4, <2>5, <2>7, PythonEvidence DEF Risky, Acts
  <2>8. CASE <<t.line, t.name>> \in FlowSinks(g)
    <3>1. PICK u \in Flows(g) : <<t.line, t.name>> = <<u.line, u.name>>
      BY <2>8 DEF FlowSinks
    <3>2. QED
      BY <3>1, <2>1, <2>2, <2>4, PythonEvidence
  <2>9. QED
    BY <2>3, <2>6, <2>7, <2>8
<1>7. QED
  BY <1>4, <1>5, <1>6

\* A comparison without a finding: the newer release does nothing that the older one
\* did not do in the same file.
LEMMA NothingNew ==
    ASSUME NEW b \in Contents, NEW c \in Contents, BaselineFindings(b, c) = {}
    PROVE  Evidence(c) \subseteq Evidence(b)
<1>1. Usable(b) /\ Usable(c)
  <2>1. SUFFICES ASSUME ~Usable(b) \/ ~Usable(c) PROVE FALSE
    OBVIOUS
  <2>2. Refusals({b, c}) = {}
    BY <2>1 DEF BaselineFindings
  <2>3. QED
    BY <2>1, <2>2 DEF Usable, Refusals
<1>2. /\ NewInFiles(b, c) = {}
      /\ NewCommands(b, c) = {}
  BY <1>1 DEF BaselineFindings
<1>3. {"entry points"} \X c.entries \subseteq {"entry points"} \X b.entries
  BY <1>2 DEF NewCommands, When
<1>4. ASSUME NEW p \in Paths(c)
      PROVE  \/ EvidenceOf(p, c.files[p]) = {}
             \/ /\ p \in Paths(b)
                /\ EvidenceOf(p, c.files[p]) \subseteq EvidenceOf(p, b.files[p])
  <2>1. CASE p \notin Added(b, c) \cup Changed(b, c)
    BY <2>1 DEF Added, Changed
  <2>2. CASE p \in Added(b, c) \cup Changed(b, c)
    <3>1. NewInFile(p, b, c) = {}
      BY <1>2, <2>2 DEF NewInFiles
    <3>2. CASE Suffix(p) = "py"
      <4>1. NewInPython(p, b, c) = {}
        BY <3>1, <3>2 DEF NewInFile
      <4>2. QED
        BY <4>1, <3>2, PythonCarries
    <3>3. CASE Suffix(p) = "pth"
      <4>1. NewInPth(p, b, c) = {}
        BY <3>1, <3>3 DEF NewInFile
      <4>2. Lines(c.files[p]) \subseteq (IF p \in Paths(b) THEN Lines(b.files[p]) ELSE {})
        BY <4>1 DEF NewInPth, When
      <4>3. ASSUME NEW f PROVE EvidenceOf(p, f) = Lines(f)
        BY <3>3 DEF EvidenceOf
      <4>4. QED
        BY <4>2, <4>3
    <3>4. CASE Suffix(p) = "library"
      <4>1. When(p \in Added(b, c), "baseline_new_native") = {}
        BY <3>1, <3>4 DEF NewInFile
      <4>2. p \notin Added(b, c)
        BY <4>1 DEF When
      <4>3. ASSUME NEW f PROVE EvidenceOf(p, f) = {"native"}
        BY <3>4 DEF EvidenceOf
      <4>4. QED
        BY <4>2, <4>3 DEF Added
    <3>5. CASE Suffix(p) \notin {"py", "pth", "library"}
      BY <3>5 DEF EvidenceOf
    <3>6. QED
      BY <3>2, <3>3, <3>4, <3>5
  <2>3. QED
    BY <2>1, <2>2
<1>5. ASSUME NEW p \in Paths(c)
      PROVE  {p} \X EvidenceOf(p, c.files[p])
               \subseteq UNION {{q} \X EvidenceOf(q, b.files[q]) : q \in Paths(b)}
  BY <1>4
<1>6. UNION {{p} \X EvidenceOf(p, c.files[p]) : p \in Paths(c)}
        \subseteq UNION {{q} \X EvidenceOf(q, b.files[q]) : q \in Paths(b)}
  BY <1>5
<1>7. QED
  BY <1>3, <1>6 DEF Evidence

-----------------------------------------------------------------------------
(* The report of the engine. *)

Examination ==
    [stage : {"examining"}, target : Artifact, other : Artifact \cup {None},
     selection : Selections]

Selected(j) == j.selection.outcome = "selected"

\* Every step reports rules.
LEMMA StepsReportRules ==
    ASSUME content \in [Artifact -> Contents], NEW j \in Examination, NEW F
    PROVE  /\ BaselineRules(j, F) \subseteq Rules
           /\ SurfaceRules(j, F) \subseteq Rules
           /\ j.other # None => PairRules(j, F) \subseteq Rules
<1>1. /\ j.target \in Artifact /\ content[j.target] \in Contents
      /\ j.other # None => content[j.other] \in Contents
      /\ Selected(j) => content[j.selection.baseline] \in Contents
  BY DEF Examination, Selections, Selected
<1>2. "analyzer_error" \in Rules
  BY DEF Rules, ReviewRules
<1>3. BaselineRules(j, F) \subseteq Rules
  <2>1. j.selection.outcome \in {"none", "failed", "selected"}
    BY DEF Examination, Selections
  <2>2. QED
    BY <1>1, <1>2, <2>1, BaselineFindingsAreRules DEF BaselineRules, Selected
<1>4. SurfaceRules(j, F) \subseteq Rules
  BY <1>1, <1>2, SurfaceFindingsAreRules DEF SurfaceRules
<1>5. j.other # None => PairRules(j, F) \subseteq Rules
  BY <1>1, <1>2, PairFindingsAreRules DEF PairRules
<1>6. QED
  BY <1>3, <1>4, <1>5

\* The parts of a report.
LEMMA ReportParts ==
    ASSUME NEW j, NEW F, NEW within
    PROVE  LET r == Report(j, F, within)
               tier == IF Selected(j) THEN j.selection.tier ELSE None
           IN /\ r.steps["F7"] = BaselineStatus(Selected(j), BaselineRules(j, F))
              /\ r.steps["F8"] = StatusOf(SurfaceRules(j, F))
              /\ r.steps["F9"] = IF j.other = None THEN "skipped"
                                 ELSE StatusOf(PairRules(j, F))
              /\ r.evidence = Items("F7", BaselineRules(j, F), tier)
                              \cup Items("F8", SurfaceRules(j, F), None)
                              \cup Items("F9", IF j.other = None THEN {}
                                               ELSE PairRules(j, F), None)
              /\ r.baseline = IF Selected(j) THEN j.selection.baseline ELSE None
              /\ r.tier = tier
BY DEF Report, Selected

LEMMA ReportIsTyped ==
    ASSUME content \in [Artifact -> Contents], NEW j \in Examination, NEW F,
           NEW within \in BOOLEAN
    PROVE  Report(j, F, within) \in Reports(Artifact)
<1> DEFINE f7 == BaselineRules(j, F)
           f8 == SurfaceRules(j, F)
           f9 == IF j.other = None THEN {} ELSE PairRules(j, F)
           tier == IF Selected(j) THEN j.selection.tier ELSE None
           base == IF Selected(j) THEN j.selection.baseline ELSE None
           s9 == IF j.other = None THEN "skipped" ELSE StatusOf(f9)
           steps == [F7 |-> BaselineStatus(Selected(j), f7), F8 |-> StatusOf(f8),
                     F9 |-> s9]
           evidence == Items("F7", f7, tier) \cup Items("F8", f8, None)
                       \cup Items("F9", f9, None)
<1>1. Report(j, F, within)
        = [steps |-> steps, evidence |-> evidence, baseline |-> base, tier |-> tier,
           within |-> within]
  BY DEF Report, Selected
<1>2. f7 \subseteq Rules /\ f8 \subseteq Rules /\ f9 \subseteq Rules
  BY StepsReportRules
<1>3. tier \in Tiers \cup {None} /\ base \in Artifact \cup {None}
  BY DEF Selected, Examination, Selections
<1>4. steps \in [Analyzer -> Statuses]
  <2>1. /\ BaselineStatus(Selected(j), f7) \in Statuses
        /\ StatusOf(f8) \in Statuses
        /\ s9 \in Statuses
    BY DEF BaselineStatus, StatusOf, Statuses
  <2>2. QED
    BY <2>1 DEF Analyzer
<1>5. evidence \in SUBSET EvidenceItems
  <2>1. ASSUME NEW analyzer \in Analyzer, NEW rules, rules \subseteq Rules,
               NEW t \in Tiers \cup {None}
        PROVE  Items(analyzer, rules, t) \subseteq EvidenceItems
    BY <2>1 DEF Items, EvidenceItems
  <2>2. {"F7", "F8", "F9"} \subseteq Analyzer
    BY DEF Analyzer
  <2> HIDE DEF f7, f8, f9, tier
  <2>3. QED
    BY <1>2, <1>3, <2>1, <2>2
<1> HIDE DEF steps, evidence, tier, base
<1>6. QED
  BY <1>1, <1>3, <1>4, <1>5 DEF Reports

\* A piece of evidence carries the analyzer it comes from and a rule that this analyzer
\* reports.
LEMMA EvidenceOrigin ==
    ASSUME NEW j, NEW F, NEW within, NEW e
    PROVE  LET tier == IF Selected(j) THEN j.selection.tier ELSE None
           IN e \in Report(j, F, within).evidence <=>
              \/ \E rule \in BaselineRules(j, F) :
                   e = [analyzer |-> "F7", rule |-> rule, tier |-> tier]
              \/ \E rule \in SurfaceRules(j, F) :
                   e = [analyzer |-> "F8", rule |-> rule, tier |-> None]
              \/ /\ j.other # None
                 /\ \E rule \in PairRules(j, F) :
                      e = [analyzer |-> "F9", rule |-> rule, tier |-> None]
<1> DEFINE tier == IF Selected(j) THEN j.selection.tier ELSE None
           f9 == IF j.other = None THEN {} ELSE PairRules(j, F)
<1>1. Report(j, F, within).evidence = Items("F7", BaselineRules(j, F), tier)
                                      \cup Items("F8", SurfaceRules(j, F), None)
                                      \cup Items("F9", f9, None)
  BY ReportParts
<1>2. ASSUME NEW analyzer, NEW rules, NEW t
      PROVE  e \in Items(analyzer, rules, t) <=>
             \E rule \in rules : e = [analyzer |-> analyzer, rule |-> rule, tier |-> t]
  BY DEF Items
<1>3. (\E rule \in f9 : e = [analyzer |-> "F9", rule |-> rule, tier |-> None])
        <=> /\ j.other # None
            /\ \E rule \in PairRules(j, F) :
                 e = [analyzer |-> "F9", rule |-> rule, tier |-> None]
  OBVIOUS
<1> HIDE DEF tier, f9
<1>4. QED
  BY <1>1, <1>2, <1>3 DEF tier

\* The lookup of a baseline either names one, or says nothing, or is an error.
LEMMA BaselineRulesBySelection ==
    ASSUME NEW j \in Examination, NEW F
    PROVE  ~Selected(j) => BaselineRules(j, F) = IF j.selection.outcome = "failed"
                                                 THEN {"analyzer_error"} ELSE {}
BY DEF Examination, Selections, Selected, BaselineRules

\* The status of a step follows from its findings.
LEMMA StepStatus ==
    ASSUME NEW j \in Examination, NEW F, NEW within
    PROVE  LET r == Report(j, F, within)
           IN /\ (r.steps["F7"] = "error") <=> ("analyzer_error" \in BaselineRules(j, F))
              /\ (r.steps["F7"] = "skipped") <=> (~Selected(j) /\ BaselineRules(j, F) = {})
              /\ ~Selected(j) => r.steps["F7"] # "completed"
              /\ (r.steps["F8"] = "error") <=> ("analyzer_error" \in SurfaceRules(j, F))
              /\ r.steps["F8"] # "skipped"
              /\ (r.steps["F9"] = "error")
                   <=> (j.other # None /\ "analyzer_error" \in PairRules(j, F))
              /\ (r.steps["F9"] = "skipped") <=> (j.other = None)
<1>1. ASSUME NEW rules
      PROVE  /\ (StatusOf(rules) = "error") <=> ("analyzer_error" \in rules)
             /\ StatusOf(rules) # "skipped"
  BY DEF StatusOf
<1>2. ~Selected(j) => BaselineRules(j, F) \in {{}, {"analyzer_error"}}
  BY BaselineRulesBySelection
<1>3. /\ BaselineStatus(Selected(j), BaselineRules(j, F))
           = IF ~Selected(j) /\ BaselineRules(j, F) = {} THEN "skipped"
             ELSE StatusOf(BaselineRules(j, F))
  BY DEF BaselineStatus
<1>4. ASSUME ~Selected(j), BaselineRules(j, F) # {}
      PROVE  BaselineStatus(Selected(j), BaselineRules(j, F)) = "error"
  BY <1>1, <1>2, <1>3, <1>4
<1>5. QED
  BY <1>1, <1>3, <1>4, ReportParts

\* An error is in the evidence exactly if its step failed.
Coherent(r) ==
    \A a \in Analyzer :
        (r.steps[a] = "error")
          <=> \E e \in r.evidence : e.analyzer = a /\ e.rule = "analyzer_error"

LEMMA ReportIsCoherent ==
    ASSUME NEW j \in Examination, NEW F, NEW within
    PROVE  Coherent(Report(j, F, within))
<1> DEFINE r == Report(j, F, within)
<1>1. ASSUME NEW e \in r.evidence
      PROVE  /\ e.analyzer = "F7" => e.rule \in BaselineRules(j, F)
             /\ e.analyzer = "F8" => e.rule \in SurfaceRules(j, F)
             /\ e.analyzer = "F9" => j.other # None /\ e.rule \in PairRules(j, F)
  BY EvidenceOrigin
<1>2. /\ "analyzer_error" \in BaselineRules(j, F) =>
           \E e \in r.evidence : e.analyzer = "F7" /\ e.rule = "analyzer_error"
      /\ "analyzer_error" \in SurfaceRules(j, F) =>
           \E e \in r.evidence : e.analyzer = "F8" /\ e.rule = "analyzer_error"
      /\ j.other # None /\ "analyzer_error" \in PairRules(j, F) =>
           \E e \in r.evidence : e.analyzer = "F9" /\ e.rule = "analyzer_error"
  <2> DEFINE tier == IF Selected(j) THEN j.selection.tier ELSE None
             item(a, t) == [analyzer |-> a, rule |-> "analyzer_error", tier |-> t]
  <2>1. "analyzer_error" \in BaselineRules(j, F) =>
          item("F7", tier) \in r.evidence
    BY EvidenceOrigin
  <2>2. "analyzer_error" \in SurfaceRules(j, F) =>
          item("F8", None) \in r.evidence
    BY EvidenceOrigin
  <2>3. j.other # None /\ "analyzer_error" \in PairRules(j, F) =>
          item("F9", None) \in r.evidence
    BY EvidenceOrigin
  <2>4. QED
    BY <2>1, <2>2, <2>3
<1>3. QED
  BY <1>1, <1>2, StepStatus DEF Coherent, Analyzer

\* What the engine makes within the limits, the policy accepts.
LEMMA ReportIsValid ==
    ASSUME NEW j \in Examination, NEW F, NEW within
    PROVE  WithinLimits(Report(j, F, within)) => ValidReport(Report(j, F, within))
<1> DEFINE r == Report(j, F, within)
<1>1. /\ r.baseline = IF Selected(j) THEN j.selection.baseline ELSE None
      /\ r.tier = IF Selected(j) THEN j.selection.tier ELSE None
  BY ReportParts
<1>2. Selected(j) => j.selection.baseline # None /\ j.selection.tier # None
  BY LineageAssumption, PolicyAssumption DEF Selected, Examination, Selections
<1>3. ValidSteps(r)
  BY <1>1, <1>2, StepStatus DEF ValidSteps
<1>4. ASSUME NEW e \in r.evidence
      PROVE  /\ r.steps[e.analyzer] # "skipped"
             /\ e.tier = IF e.analyzer = "F7" THEN r.tier ELSE None
             /\ e.rule = "analyzer_error" => r.steps[e.analyzer] = "error"
  <2>1. CASE \E rule \in BaselineRules(j, F) :
               e = [analyzer |-> "F7", rule |-> rule, tier |-> r.tier]
    BY <2>1, StepStatus
  <2>2. CASE \E rule \in SurfaceRules(j, F) :
               e = [analyzer |-> "F8", rule |-> rule, tier |-> None]
    BY <2>2, StepStatus
  <2>3. CASE /\ j.other # None
             /\ \E rule \in PairRules(j, F) :
                  e = [analyzer |-> "F9", rule |-> rule, tier |-> None]
    BY <2>3, StepStatus
  <2>4. QED
    BY <1>1, <1>4, <2>1, <2>2, <2>3, EvidenceOrigin
<1>5. ValidEvidence(r)
  BY <1>4 DEF ValidEvidence
<1>6. QED
  BY <1>3, <1>5 DEF ValidReport

\* A step that broke is a step that failed.
LEMMA FaultsShow ==
    ASSUME NEW j \in Examination, NEW F \in SUBSET Faults(j), NEW within,
           F # {} \/ j.selection.outcome = "failed"
    PROVE  Failed(Report(j, F, within)) # {}
<1>1. \/ "analyzer_error" \in BaselineRules(j, F)
      \/ "analyzer_error" \in SurfaceRules(j, F)
      \/ j.other # None /\ "analyzer_error" \in PairRules(j, F)
  <2>1. CASE j.selection.outcome = "failed"
    BY <2>1 DEF BaselineRules
  <2>2. CASE "F8" \in F
    BY <2>2 DEF SurfaceRules
  <2>3. CASE "F9" \in F
    BY <2>3 DEF PairRules, Faults
  <2>4. CASE F \cap {"open", "F7"} # {}
    <3>1. j.selection.outcome = "selected"
      BY <2>4 DEF Faults
    <3>2. QED
      BY <2>4, <3>1 DEF BaselineRules
  <2>5. QED
    BY <2>1, <2>2, <2>3, <2>4 DEF Faults
<1>2. \E a \in Analyzer : Report(j, F, within).steps[a] = "error"
  BY <1>1, StepStatus DEF Analyzer
<1>3. QED
  BY <1>2 DEF Failed

LEMMA AllowIsSilence ==
    ASSUME NEW r, Decision(r) = "ALLOW"
    PROVE  Counted(r) = {} /\ Failed(r) = {} /\ ~NoBaseline(r)
BY DEF Decision

\* Where a baseline is required, an ALLOW means that the artifact was compared with one
\* and does nothing that this baseline does not do.
LEMMA AllowedAddsNothing ==
    ASSUME content \in [Artifact -> Contents], NEW j \in Examination, NEW F, NEW within,
           RequireBaseline, Decision(Report(j, F, within)) = "ALLOW"
    PROVE  /\ Selected(j)
           /\ Evidence(content[j.target]) \subseteq Evidence(content[j.selection.baseline])
<1> DEFINE r == Report(j, F, within)
<1>1. Counted(r) = {} /\ Failed(r) = {} /\ ~NoBaseline(r)
  BY AllowIsSilence
<1>2. Selected(j)
  BY <1>1, ReportParts DEF NoBaseline
<1>3. BaselineRules(j, F) = {}
  <2>1. SUFFICES ASSUME NEW rule \in BaselineRules(j, F) PROVE FALSE
    OBVIOUS
  <2> DEFINE e == [analyzer |-> "F7", rule |-> rule, tier |-> j.selection.tier]
  <2>2. e \in r.evidence
    BY <1>2, EvidenceOrigin
  <2>3. e.rule = "analyzer_error"
    BY <1>1, <2>2 DEF Counted
  <2>4. r.steps["F7"] = "error"
    BY <2>3, StepStatus
  <2>5. QED
    BY <1>1, <2>4 DEF Failed, Analyzer
<1>4. BaselineFindings(content[j.selection.baseline], content[j.target]) = {}
  BY <1>2, <1>3 DEF BaselineRules, Selected
<1>5. j.target \in Artifact /\ j.selection.baseline \in Artifact
  BY <1>2 DEF Examination, Selections, Selected
<1>6. QED
  BY <1>2, <1>4, <1>5, NothingNew

\* An ALLOW is worth nothing and a DENY the maximum: the score of a verdict never
\* contradicts its decision, whatever the tiers and the reasons are worth.
THEOREM ScoreFitsDecision ==
    ASSUME NEW Baseline, NEW r \in Reports(Baseline)
    PROVE  /\ Decision(r) = "ALLOW" => FinalScore(r) = 0
           /\ Decision(r) = "DENY" => FinalScore(r) = 100
<1> DEFINE S == {0} \cup {ScoreOf(e) : e \in Counted(r)}
                    \cup {Score["error"] : a \in Failed(r)}
                    \cup (IF NoBaseline(r) THEN {Score["no_baseline"]} ELSE {})
                    \cup (IF NoPair(r) THEN {Score["no_pair"]} ELSE {})
<1>1. FinalScore(r) = Max(S)
  BY DEF FinalScore
<1>2. ASSUME Decision(r) = "ALLOW" PROVE FinalScore(r) = 0
  <2>1. Counted(r) = {} /\ Failed(r) = {} /\ ~NoBaseline(r) /\ ~NoPair(r)
    BY <1>2 DEF Decision
  <2>2. S = {0}
    BY <2>1
  <2> HIDE DEF S
  <2>3. QED
    BY <1>1, <2>2 DEF Max
<1>3. ASSUME Decision(r) = "DENY" PROVE FinalScore(r) = 100
  <2>1. PICK e \in Counted(r) : EffectiveAction(e) = "DENY"
    BY <1>3 DEF Decision
  <2>2. /\ Score["deny"] = 100
        /\ \A x \in {"review", "no_pair", "no_baseline", "error", "deny"} \cup Tiers :
             Score[x] \in 50..100
    BY PolicyAssumption DEF ValidConfig
  <2>3. ScoreOf(e) = 100
    BY <2>1, <2>2 DEF ScoreOf
  <2>4. 100 \in S
    BY <2>1, <2>3
  <2>5. ASSUME NEW d \in Counted(r) PROVE ScoreOf(d) \in 0..100
    <3>1. d.tier \in Tiers \cup {None}
      BY DEF Counted, Reports, EvidenceItems
    <3>2. \A x \in {"review", "deny"} \cup Tiers : Score[x] \in 0..100
      BY <2>2
    <3>3. ScoreOf(d) \in {Score[x] : x \in {"review", "deny"} \cup Tiers}
      BY <3>1 DEF ScoreOf
    <3>4. QED
      BY <3>2, <3>3
  <2>6. S \subseteq 0..100
    BY <2>2, <2>5
  <2> HIDE DEF S
  <2>7. \A x \in S : x \in 0..100
    BY <2>6
  <2>8. \A x \in S : (\A y \in S : x >= y) => x = 100
    BY <2>4, <2>7
  <2>9. \A y \in S : 100 >= y
    BY <2>7
  <2>10. Max(S) = 100
    BY <2>4, <2>8, <2>9 DEF Max
  <2>11. QED
    BY <1>1, <2>10
<1>4. QED
  BY <1>2, <1>3

-----------------------------------------------------------------------------
(* Types. *)

LEMMA NonEmptyJob ==
    ASSUME NEW j \in Jobs, j # Idle
    PROVE  j.target \in Artifact
BY DEF Jobs, Idle

LEMMA StageOfJob ==
    ASSUME NEW j \in Jobs
    PROVE  /\ j.stage = "selecting" =>
                j.target \in Artifact /\ j.other \in Artifact \cup {None}
           /\ j.stage = "examining" => j \in Examination
           /\ j.stage = "reporting" =>
                /\ j.target \in Artifact
                /\ j.report \in Reports(Artifact)
                /\ j.faults \in BOOLEAN
BY DEF Jobs, Idle, Examination

LEMMA DecisionIsOne ==
    ASSUME NEW r
    PROVE  Decision(r) \in Decisions
BY DEF Decision, Decisions

LEMMA InitTypeOK == Init => TypeOK
BY DEF Init, Start, TypeOK, States, Jobs

LEMMA NextTypeOK == TypeOK /\ [Next]_vars => TypeOK'
<1> SUFFICES ASSUME TypeOK, [Next]_vars PROVE TypeOK'
  OBVIOUS
<1> USE LineageAssumption
<1>1. ASSUME NEW a \in Artifact, Discover(a) PROVE TypeOK'
  BY <1>1 DEF Discover, TypeOK, States, history
<1>2. ASSUME NEW a \in Artifact, NEW w \in Worker, Claim(w, a) PROVE TypeOK'
  <2>1. \E other \in Artifact \cup {None} :
          job' = [job EXCEPT ![w] = Selecting(a, other)]
    BY <1>2 DEF Claim, Counterparts
  <2>2. job' \in [Worker -> Jobs]
    BY <2>1 DEF TypeOK, Jobs, Selecting
  <2>3. state' \in [Artifact -> States]
    BY <1>2 DEF Claim, TypeOK, States
  <2>4. events' \in Nat
    BY <1>2 DEF Claim, Event, TypeOK
  <2>5. QED
    BY <1>2, <2>2, <2>3, <2>4 DEF Claim, TypeOK, history
<1>3. ASSUME NEW w \in Worker, Select(w) PROVE TypeOK'
  <2>1. \E selection \in Selections :
          job' = [job EXCEPT ![w] =
              [stage |-> "examining", target |-> job[w].target, other |-> job[w].other,
               selection |-> selection]]
    BY <1>3 DEF Select, Selections
  <2>2. /\ job[w].target \in Artifact /\ job[w].other \in Artifact \cup {None}
    BY <1>3, StageOfJob DEF Select, TypeOK
  <2>3. job' \in [Worker -> Jobs]
    BY <2>1, <2>2 DEF TypeOK, Jobs
  <2>4. events' \in Nat
    BY <1>3 DEF Select, Event, TypeOK
  <2>5. QED
    BY <1>3, <2>3, <2>4 DEF Select, TypeOK, store, history
<1>4. ASSUME NEW w \in Worker, Examine(w) PROVE TypeOK'
  <2>1. PICK F \in SUBSET Faults(job[w]), within \in BOOLEAN :
          /\ IF F = {} /\ within THEN UNCHANGED events ELSE Event
          /\ job' = [job EXCEPT ![w] =
               [stage |-> "reporting", target |-> job[w].target,
                report |-> Report(job[w], F, within),
                faults |-> F # {} \/ job[w].selection.outcome = "failed"]]
    BY <1>4 DEF Examine
  <2>2. job[w] \in Examination
    BY <1>4, StageOfJob DEF Examine, TypeOK
  <2>3. Report(job[w], F, within) \in Reports(Artifact)
    BY <2>2, ReportIsTyped DEF TypeOK
  <2>4. (F # {} \/ job[w].selection.outcome = "failed") \in BOOLEAN
    OBVIOUS
  <2>5. job[w].target \in Artifact
    BY <2>2 DEF Examination
  <2>6. job' \in [Worker -> Jobs]
    BY <2>1, <2>3, <2>4, <2>5 DEF TypeOK, Jobs
  <2>7. events' \in Nat
    BY <2>1 DEF Event, TypeOK
  <2>8. QED
    BY <1>4, <2>6, <2>7 DEF Examine, TypeOK, store, history
<1>5. ASSUME NEW w \in Worker, RecordError(w) PROVE TypeOK'
  <2>1. job[w].target \in Artifact
    BY <1>5, NonEmptyJob DEF RecordError, TypeOK
  <2>2. job' \in [Worker -> Jobs]
    BY <1>5 DEF RecordError, TypeOK, Jobs
  <2>3. state' \in [Artifact -> States] /\ events' \in Nat
    BY <1>5, <2>1 DEF RecordError, TypeOK, States
  <2>4. QED
    BY <1>5, <2>2, <2>3 DEF RecordError, TypeOK, history
<1>6. ASSUME NEW w \in Worker, RecordVerdict(w) PROVE TypeOK'
  <2>1. /\ job[w].target \in Artifact
        /\ job[w].report \in Reports(Artifact)
        /\ job[w].faults \in BOOLEAN
    BY <1>6, StageOfJob DEF RecordVerdict, TypeOK
  <2>2. Decision(job[w].report) \in Decisions
    BY DecisionIsOne
  <2>3. job' \in [Worker -> Jobs]
    BY <1>6 DEF RecordVerdict, TypeOK, Jobs
  <2>4. state' \in [Artifact -> States]
    BY <1>6, <2>2 DEF RecordVerdict, TypeOK, States
  <2>5. cooldown' \in [Artifact -> {"none", "running", "over"}]
    BY <1>6 DEF RecordVerdict, TypeOK
  <2>6. report' \in [Artifact -> Reports(Artifact) \cup {None}]
    BY <1>6, <2>1 DEF RecordVerdict, TypeOK
  <2>7. faulty' \in [Artifact -> BOOLEAN]
    BY <1>6, <2>1 DEF RecordVerdict, TypeOK
  <2>8. QED
    BY <1>6, <2>3, <2>4, <2>5, <2>6, <2>7 DEF RecordVerdict, TypeOK
<1>7. ASSUME NEW w \in Worker, Recover(w) PROVE TypeOK'
  <2>1. job' \in [Worker -> Jobs]
    BY <1>7 DEF Recover, TypeOK, Jobs
  <2>2. state' \in [Artifact -> States] /\ events' \in Nat
    BY <1>7, NonEmptyJob DEF Recover, Event, TypeOK, States
  <2>3. QED
    BY <1>7, <2>1, <2>2 DEF Recover, TypeOK, history
<1>8. ASSUME NEW a \in Artifact, CooldownEnds(a) PROVE TypeOK'
  BY <1>8 DEF CooldownEnds, TypeOK, history
<1>9. ASSUME NEW a \in Artifact, NEW decision \in {"ALLOW", "DENY"},
             SetOverride(a, decision)
      PROVE  TypeOK'
  BY <1>9 DEF SetOverride, Event, TypeOK
<1>10. ASSUME NEW a \in Artifact, OverrideEnds(a) PROVE TypeOK'
  BY <1>10 DEF OverrideEnds, Event, TypeOK, history
<1>11. ASSUME NEW a \in Artifact, Rescan(a) PROVE TypeOK'
  BY <1>11 DEF Rescan, Event, TypeOK, States, history
<1>12. ASSUME NEW a \in Artifact, NEW enabled \in BOOLEAN, SetEligibility(a, enabled)
       PROVE  TypeOK'
  BY <1>12 DEF SetEligibility, Event, TypeOK, history
<1>13. ASSUME UNCHANGED vars PROVE TypeOK'
  BY <1>13 DEF vars, store, history, TypeOK
<1>14. QED
  BY <1>1, <1>2, <1>3, <1>4, <1>5, <1>6, <1>7, <1>8, <1>9, <1>10, <1>11, <1>12, <1>13
     DEF Next

\* Artifacts, jobs and reports keep their types: in particular, whatever the analyzers
\* find, the engine makes a report of the form that the policy expects.
THEOREM TypeCorrect == Spec => []TypeOK
<1>1. QED
  BY InitTypeOK, NextTypeOK, PTL DEF Spec

-----------------------------------------------------------------------------
(* Reports. *)

\* What is reported is valid within the limits, shows its errors in its evidence, and
\* shows every fault of its analysis as a failed step; what is recorded is valid.
Sound(r, faults) ==
    /\ WithinLimits(r) => ValidReport(r)
    /\ Coherent(r)
    /\ faults => Failed(r) # {}

SoundJobs ==
    \A w \in Worker :
        job[w].stage = "reporting" => Sound(job[w].report, job[w].faults)

SoundVerdicts ==
    \A a \in Artifact : state[a] \in Decisions =>
        /\ report[a] \in Reports(Artifact)
        /\ ValidReport(report[a])
        /\ Sound(report[a], faulty[a])
        /\ Decision(report[a]) = state[a]

\* A job that is not at its report yet, or that ends, leaves SoundJobs as it is.
LEMMA SoundJobsKept ==
    ASSUME TypeOK, SoundJobs,
           NEW w \in Worker, NEW j, job' = [job EXCEPT ![w] = j], j.stage # "reporting"
    PROVE  SoundJobs'
BY DEF SoundJobs, TypeOK

\* Artifacts that get no verdict leave SoundVerdicts as it is.
LEMMA SoundVerdictsKept ==
    ASSUME TypeOK, SoundVerdicts, UNCHANGED <<report, faulty>>,
           \A a \in Artifact : state'[a] \in Decisions => state'[a] = state[a]
    PROVE  SoundVerdicts'
BY DEF SoundVerdicts

LEMMA NotReporting ==
    /\ Idle.stage # "reporting"
    /\ \A a, other : Selecting(a, other).stage # "reporting"
BY DEF Idle, Selecting

LEMMA StateEffect ==
    ASSUME TypeOK, NEW a \in Artifact, NEW x, state' = [state EXCEPT ![a] = x]
    PROVE  /\ state'[a] = x
           /\ \A b \in Artifact : b # a => state'[b] = state[b]
BY DEF TypeOK

LEMMA InitSound == Init => SoundJobs /\ SoundVerdicts
BY DEF Init, Start, SoundJobs, SoundVerdicts, Idle, Decisions

LEMMA NextSound ==
    TypeOK /\ SoundJobs /\ SoundVerdicts /\ [Next]_vars => SoundJobs' /\ SoundVerdicts'
<1> SUFFICES ASSUME TypeOK, SoundJobs, SoundVerdicts, [Next]_vars
             PROVE  SoundJobs' /\ SoundVerdicts'
  OBVIOUS
<1>1. ASSUME NEW a \in Artifact, Discover(a) PROVE SoundJobs' /\ SoundVerdicts'
  <2>1. SoundJobs'
    BY <1>1 DEF Discover, SoundJobs
  <2>2. \A b \in Artifact : state'[b] \in Decisions => state'[b] = state[b]
    BY <1>1, StateEffect DEF Discover, Decisions
  <2>3. QED
    BY <1>1, <2>1, <2>2, SoundVerdictsKept DEF Discover, history
<1>2. ASSUME NEW a \in Artifact, NEW w \in Worker, Claim(w, a)
      PROVE  SoundJobs' /\ SoundVerdicts'
  <2>1. PICK other : job' = [job EXCEPT ![w] = Selecting(a, other)]
    BY <1>2 DEF Claim
  <2>2. SoundJobs'
    <3>1. Selecting(a, other).stage # "reporting"
      BY NotReporting
    <3>2. QED
      BY <2>1, <3>1, SoundJobsKept
  <2>3. \A b \in Artifact : state'[b] \in Decisions => state'[b] = state[b]
    BY <1>2, StateEffect DEF Claim, Decisions
  <2>4. QED
    BY <1>2, <2>2, <2>3, SoundVerdictsKept DEF Claim, history
<1>3. ASSUME NEW w \in Worker, Select(w) PROVE SoundJobs' /\ SoundVerdicts'
  <2> DEFINE next(selection) ==
               [stage |-> "examining", target |-> job[w].target, other |-> job[w].other,
                selection |-> selection]
  <2>1. PICK selection : job' = [job EXCEPT ![w] = next(selection)]
    BY <1>3 DEF Select
  <2>2. SoundJobs'
    <3>1. next(selection).stage # "reporting"
      OBVIOUS
    <3> HIDE DEF next
    <3>2. QED
      BY <2>1, <3>1, SoundJobsKept
  <2>3. QED
    BY <1>3, <2>2, SoundVerdictsKept DEF Select, store, history
<1>4. ASSUME NEW w \in Worker, Examine(w) PROVE SoundJobs' /\ SoundVerdicts'
  <2> DEFINE faults(F) == F # {} \/ job[w].selection.outcome = "failed"
             done(F, within) == [stage |-> "reporting", target |-> job[w].target,
                                 report |-> Report(job[w], F, within),
                                 faults |-> faults(F)]
  <2>1. PICK F \in SUBSET Faults(job[w]), within \in BOOLEAN :
          job' = [job EXCEPT ![w] = done(F, within)]
    BY <1>4 DEF Examine
  <2>2. job[w] \in Examination
    BY <1>4, StageOfJob DEF Examine, TypeOK
  <2> DEFINE r == Report(job[w], F, within)
  <2>3. (WithinLimits(r) => ValidReport(r)) /\ Coherent(r)
    BY <2>2, ReportIsValid, ReportIsCoherent
  <2>4. faults(F) => Failed(r) # {}
    BY <2>2, FaultsShow
  <2>5. done(F, within).report = r /\ done(F, within).faults = faults(F)
    OBVIOUS
  <2>6. Sound(done(F, within).report, done(F, within).faults)
    BY <2>3, <2>4, <2>5 DEF Sound
  <2> HIDE DEF done
  <2>7. SoundJobs'
    BY <2>1, <2>6 DEF SoundJobs, TypeOK
  <2>8. QED
    BY <1>4, <2>7, SoundVerdictsKept DEF Examine, store, history
<1>5. ASSUME NEW w \in Worker, RecordError(w) PROVE SoundJobs' /\ SoundVerdicts'
  <2>1. SoundJobs'
    BY <1>5, NotReporting, SoundJobsKept DEF RecordError
  <2>2. job[w].target \in Artifact
    BY <1>5, NonEmptyJob DEF RecordError, TypeOK
  <2>3. \A b \in Artifact : state'[b] \in Decisions => state'[b] = state[b]
    BY <1>5, <2>2, StateEffect DEF RecordError, Decisions
  <2>4. QED
    BY <1>5, <2>1, <2>3, SoundVerdictsKept DEF RecordError, history
<1>6. ASSUME NEW w \in Worker, RecordVerdict(w) PROVE SoundJobs' /\ SoundVerdicts'
  <2> DEFINE t == job[w].target
  <2>1. SoundJobs'
    BY <1>6, NotReporting, SoundJobsKept DEF RecordVerdict
  <2>2. t \in Artifact /\ job[w].report \in Reports(Artifact)
    BY <1>6, StageOfJob DEF RecordVerdict, TypeOK
  <2>3. ValidReport(job[w].report) /\ Sound(job[w].report, job[w].faults)
    BY <1>6 DEF RecordVerdict, SoundJobs
  <2>4. /\ state' = [state EXCEPT ![t] = Decision(job[w].report)]
        /\ report' = [report EXCEPT ![t] = job[w].report]
        /\ faulty' = [faulty EXCEPT ![t] = job[w].faults]
    BY <1>6 DEF RecordVerdict
  <2>5. ASSUME NEW b \in Artifact, state'[b] \in Decisions
        PROVE  /\ report'[b] \in Reports(Artifact)
               /\ ValidReport(report'[b])
               /\ Sound(report'[b], faulty'[b])
               /\ Decision(report'[b]) = state'[b]
    <3>1. CASE b = t
      BY <2>2, <2>3, <2>4, <3>1 DEF TypeOK
    <3>2. CASE b # t
      <4>1. state'[b] = state[b] /\ report'[b] = report[b] /\ faulty'[b] = faulty[b]
        BY <2>4, <3>2 DEF TypeOK
      <4>2. QED
        BY <2>5, <4>1 DEF SoundVerdicts
    <3>3. QED
      BY <3>1, <3>2
  <2>6. QED
    BY <2>1, <2>5 DEF SoundVerdicts
<1>7. ASSUME NEW w \in Worker, Recover(w) PROVE SoundJobs' /\ SoundVerdicts'
  <2>1. SoundJobs'
    BY <1>7, NotReporting, SoundJobsKept DEF Recover
  <2>2. job[w].target \in Artifact
    BY <1>7, NonEmptyJob DEF Recover, TypeOK
  <2>3. \A b \in Artifact : state'[b] \in Decisions => state'[b] = state[b]
    BY <1>7, <2>2, StateEffect DEF Recover, Decisions
  <2>4. QED
    BY <1>7, <2>1, <2>3, SoundVerdictsKept DEF Recover, history
<1>8. ASSUME NEW a \in Artifact, Rescan(a) PROVE SoundJobs' /\ SoundVerdicts'
  <2>1. SoundJobs'
    BY <1>8 DEF Rescan, SoundJobs
  <2>2. \A b \in Artifact : state'[b] \in Decisions => state'[b] = state[b]
    BY <1>8, StateEffect DEF Rescan, Decisions
  <2>3. QED
    BY <1>8, <2>1, <2>2, SoundVerdictsKept DEF Rescan, history
<1>9. ASSUME UNCHANGED <<state, report, job, faulty>> PROVE SoundJobs' /\ SoundVerdicts'
  BY <1>9, SoundVerdictsKept DEF SoundJobs
<1>10. ASSUME NEW a \in Artifact,
              \/ CooldownEnds(a) \/ OverrideEnds(a)
              \/ \E decision \in {"ALLOW", "DENY"} : SetOverride(a, decision)
              \/ \E enabled \in BOOLEAN : SetEligibility(a, enabled)
       PROVE  UNCHANGED <<state, report, job, faulty>>
  BY <1>10 DEF CooldownEnds, OverrideEnds, SetOverride, SetEligibility, history
<1>11. ASSUME UNCHANGED vars PROVE UNCHANGED <<state, report, job, faulty>>
  BY <1>11 DEF vars, store, history
<1>12. QED
  BY <1>1, <1>2, <1>3, <1>4, <1>5, <1>6, <1>7, <1>8, <1>9, <1>10, <1>11 DEF Next

LEMMA ReportsStaySound == Spec => [](TypeOK /\ SoundJobs /\ SoundVerdicts)
<1>1. Init => TypeOK /\ SoundJobs /\ SoundVerdicts
  BY InitTypeOK, InitSound
<1>2. TypeOK /\ SoundJobs /\ SoundVerdicts /\ [Next]_vars
        => (TypeOK /\ SoundJobs /\ SoundVerdicts)'
  BY NextTypeOK, NextSound
<1>3. QED
  BY <1>1, <1>2, PTL DEF Spec

\* Whatever the archives hold and whichever steps fail, the policy accepts every report of
\* the engine that keeps its limits: the two agree on the combinations of steps, baseline
\* and findings.
THEOREM ReportsWithinLimitsAccepted == Spec => []ReportAccepted
<1>1. SoundJobs => ReportAccepted
  BY DEF SoundJobs, Sound, ReportAccepted
<1>2. QED
  BY <1>1, ReportsStaySound, PTL

\* An analysis in which something failed does not end in ALLOW.
THEOREM FaultsNeverAllow == Spec => []BrokenAnalysisBlocks
<1>1. SoundVerdicts => BrokenAnalysisBlocks
  <2>1. SUFFICES ASSUME SoundVerdicts, NEW a \in Artifact, state[a] = "ALLOW"
                 PROVE  ~faulty[a]
    BY DEF BrokenAnalysisBlocks
  <2>2. Sound(report[a], faulty[a]) /\ Decision(report[a]) = "ALLOW"
    BY <2>1 DEF SoundVerdicts, Decisions
  <2>3. Failed(report[a]) = {}
    BY <2>2, AllowIsSilence
  <2>4. QED
    BY <2>2, <2>3 DEF Sound
<1>2. QED
  BY <1>1, ReportsStaySound, PTL

\* Made again of its evidence, a sound report is the one that was decided on, as long as
\* the analysis had a pair exactly if there is one now.
LEMMA StoredReportIsReport ==
    ASSUME NEW a \in Artifact, report[a] \in Reports(Artifact),
           ValidReport(report[a]), Coherent(report[a]),
           report[a].steps["F9"] = "skipped" <=> ~HasPair(a)
    PROVE  StoredReport(a) = report[a]
<1> DEFINE r == report[a]
           failed(analyzer) ==
             \E e \in r.evidence : e.analyzer = analyzer /\ e.rule = "analyzer_error"
           status(analyzer, ran) ==
             IF failed(analyzer) THEN "error" ELSE IF ran THEN "completed" ELSE "skipped"
           steps == [F7 |-> status("F7", r.baseline # None), F8 |-> status("F8", TRUE),
                     F9 |-> status("F9", HasPair(a))]
<1>1. r.steps \in [{"F7", "F8", "F9"} -> {"completed", "skipped", "error"}]
  BY DEF Reports, Analyzer, Statuses
<1>2. ASSUME NEW analyzer \in {"F7", "F8", "F9"}
      PROVE  r.steps[analyzer] = "error" <=> failed(analyzer)
  BY DEF Coherent, Analyzer
<1>3. /\ r.steps["F8"] # "skipped"
      /\ r.baseline # None => r.steps["F7"] # "skipped"
      /\ r.baseline = None => r.steps["F7"] # "completed"
  BY DEF ValidReport, ValidSteps
<1> HIDE DEF failed
<1>4. /\ status("F7", r.baseline # None) = r.steps["F7"]
      /\ status("F8", TRUE) = r.steps["F8"]
      /\ status("F9", HasPair(a)) = r.steps["F9"]
  BY <1>1, <1>2, <1>3
<1>5. steps = r.steps
  BY <1>1, <1>4
<1>6. StoredReport(a) = [r EXCEPT !.steps = steps]
  BY DEF StoredReport, failed
<1>7. QED
  BY <1>5, <1>6 DEF Reports

\* simulate_policy and run_once agree: what the evidence in the store lets one decide
\* again is what was decided.
THEOREM SimulationIsFaithful == Spec => []SimulationAgrees
<1>1. SoundVerdicts => SimulationAgrees
  <2>1. SUFFICES ASSUME SoundVerdicts, NEW a \in Artifact, state[a] \in Decisions,
                        report[a].steps["F9"] = "skipped" <=> ~HasPair(a),
                        ~(report[a].baseline = None /\ report[a].steps["F7"] = "error")
                 PROVE  /\ ~StoredReportRefused(a)
                        /\ ValidReport(StoredReport(a))
                        /\ Decision(StoredReport(a)) = state[a]
    BY DEF SimulationAgrees
  <2>2. /\ report[a] \in Reports(Artifact)
        /\ ValidReport(report[a]) /\ Coherent(report[a])
        /\ Decision(report[a]) = state[a]
    BY <2>1 DEF SoundVerdicts, Sound
  <2>3. StoredReport(a) = report[a]
    BY <2>1, <2>2, StoredReportIsReport
  <2>4. ~StoredReportRefused(a)
    BY <2>1, <2>3 DEF StoredReportRefused
  <2>5. QED
    BY <2>2, <2>3, <2>4
<1>2. QED
  BY <1>1, ReportsStaySound, PTL

-----------------------------------------------------------------------------
(* Lineage. *)

ApprovedEvidence == UNION {Evidence(content[h]) : h \in approved}

\* The strengthening of NoLaundering: what was allowed when an analysis chose it stays
\* evidence that someone approved, whatever becomes of it meanwhile.
Carried(a) == Evidence(content[a]) \subseteq ApprovedEvidence

AllowedIsCarried == \A a \in Artifact : state[a] = "ALLOW" => Carried(a)
OverridesAreApproved == \A a \in Artifact : manual[a] = "ALLOW" => a \in approved
BaselinesAreCarried ==
    \A w \in Worker : job[w].stage = "examining" /\ Selected(job[w])
                         => Carried(job[w].selection.baseline)
TargetsAreCarried ==
    \A w \in Worker :
        job[w].stage = "reporting" /\ Decision(job[w].report) = "ALLOW"
          => Carried(job[w].target)

Lineages ==
    /\ AllowedIsCarried
    /\ OverridesAreApproved
    /\ BaselinesAreCarried
    /\ TargetsAreCarried

\* Files never change and an approval is never forgotten.
LEMMA CarriedStays ==
    ASSUME UNCHANGED content, approved \subseteq approved', NEW a
    PROVE  Carried(a) => Carried(a)'
<1>1. ApprovedEvidence \subseteq ApprovedEvidence'
  BY DEF ApprovedEvidence
<1>2. QED
  BY <1>1 DEF Carried

LEMMA ApprovedIsCarried ==
    ASSUME NEW a \in approved
    PROVE  Carried(a)
BY DEF Carried, ApprovedEvidence

\* A baseline is allowed at the time it is chosen.
LEMMA ChosenIsAllowed ==
    ASSUME NEW c, NEW t, NEW tier, IsBaseline(c, tier, t)
    PROVE  c \in Artifact /\ Allowed(c)
BY DEF IsBaseline, Matching, Eligible, AllowedRelease

LEMMA BaselineIsCarried ==
    ASSUME Lineages, NEW c, NEW t, NEW tier, IsBaseline(c, tier, t)
    PROVE  Carried(c)
<1>1. c \in Artifact /\ Allowed(c)
  BY ChosenIsAllowed
<1>2. CASE manual[c] = "ALLOW"
  BY <1>1, <1>2, ApprovedIsCarried DEF Lineages, OverridesAreApproved
<1>3. CASE state[c] = "ALLOW"
  BY <1>1, <1>3 DEF Lineages, AllowedIsCarried
<1>4. QED
  BY <1>1, <1>2, <1>3 DEF Allowed

\* Jobs that did not change, and those that neither chose a baseline nor made a report,
\* carry what they carried.
LEMMA JobsStayCarried ==
    ASSUME TypeOK, Lineages, UNCHANGED content, approved \subseteq approved',
           \/ UNCHANGED job
           \/ \E w \in Worker : \E j :
                /\ job' = [job EXCEPT ![w] = j]
                /\ j.stage \notin {"examining", "reporting"}
    PROVE  BaselinesAreCarried' /\ TargetsAreCarried'
<1>1. ASSUME NEW w \in Worker
      PROVE  job'[w] = job[w] \/ job'[w].stage \notin {"examining", "reporting"}
  BY DEF TypeOK
<1>2. BaselinesAreCarried'
  BY <1>1, CarriedStays DEF Lineages, BaselinesAreCarried, Selected
<1>3. TargetsAreCarried'
  BY <1>1, CarriedStays DEF Lineages, TargetsAreCarried
<1>4. QED
  BY <1>2, <1>3

LEMMA StatesStayCarried ==
    ASSUME Lineages, UNCHANGED content, approved \subseteq approved',
           \A a \in Artifact : state'[a] = "ALLOW" => state[a] = "ALLOW"
    PROVE  AllowedIsCarried'
BY CarriedStays DEF Lineages, AllowedIsCarried

LEMMA Workless ==
    /\ Idle.stage \notin {"examining", "reporting"}
    /\ \A a, other : Selecting(a, other).stage \notin {"examining", "reporting"}
BY DEF Idle, Selecting

LEMMA InitLineages == Init => Lineages
BY DEF Init, Start, Lineages, AllowedIsCarried, OverridesAreApproved,
       BaselinesAreCarried, TargetsAreCarried, Idle

LEMMA NextLineages ==
    RequireBaseline /\ TypeOK /\ Lineages /\ [Next]_vars => Lineages'
<1> SUFFICES ASSUME RequireBaseline, TypeOK, Lineages, [Next]_vars PROVE Lineages'
  OBVIOUS
<1>1. ASSUME NEW a \in Artifact, Discover(a) PROVE Lineages'
  <2>1. UNCHANGED <<content, manual, approved, job>>
    BY <1>1 DEF Discover, history
  <2>2. AllowedIsCarried'
    BY <1>1, <2>1, StateEffect, StatesStayCarried DEF Discover
  <2>3. QED
    BY <2>1, <2>2, JobsStayCarried DEF Lineages, OverridesAreApproved
<1>2. ASSUME NEW a \in Artifact, NEW w \in Worker, Claim(w, a) PROVE Lineages'
  <2>1. UNCHANGED <<content, manual, approved>>
    BY <1>2 DEF Claim, history
  <2>2. AllowedIsCarried'
    BY <1>2, <2>1, StateEffect, StatesStayCarried DEF Claim
  <2>3. PICK other : job' = [job EXCEPT ![w] = Selecting(a, other)]
    BY <1>2 DEF Claim
  <2>4. BaselinesAreCarried' /\ TargetsAreCarried'
    BY <2>1, <2>3, Workless, JobsStayCarried
  <2>5. QED
    BY <2>1, <2>2, <2>4 DEF Lineages, OverridesAreApproved
<1>3. ASSUME NEW w \in Worker, Select(w) PROVE Lineages'
  <2>1. UNCHANGED <<content, state, manual, approved>>
    BY <1>3 DEF Select, store, history
  <2> DEFINE next(selection) ==
               [stage |-> "examining", target |-> job[w].target, other |-> job[w].other,
                selection |-> selection]
  <2>2. PICK selection :
          /\ job' = [job EXCEPT ![w] = next(selection)]
          /\ selection.outcome = "selected" =>
               IsBaseline(selection.baseline, selection.tier, job[w].target)
    <3> DEFINE found(c, tier) == [outcome |-> "selected", baseline |-> c, tier |-> tier]
    <3>1. ASSUME NEW c \in Artifact, NEW tier \in Tiers,
                 IsBaseline(c, tier, job[w].target),
                 job' = [job EXCEPT ![w] = next(found(c, tier))]
          PROVE  \E selection :
                   /\ job' = [job EXCEPT ![w] = next(selection)]
                   /\ selection.outcome = "selected" =>
                        IsBaseline(selection.baseline, selection.tier, job[w].target)
      <4>1. /\ found(c, tier).baseline = c
            /\ found(c, tier).tier = tier
        OBVIOUS
      <4> HIDE DEF found, next
      <4>2. QED
        BY <3>1, <4>1
    <3>2. ASSUME NEW x \in {"none", "failed"},
                 job' = [job EXCEPT ![w] = next([outcome |-> x])]
          PROVE  \E selection :
                   /\ job' = [job EXCEPT ![w] = next(selection)]
                   /\ selection.outcome = "selected" =>
                        IsBaseline(selection.baseline, selection.tier, job[w].target)
      <4>1. [outcome |-> x].outcome # "selected"
        OBVIOUS
      <4> HIDE DEF next
      <4>2. QED
        BY <3>2, <4>1
    <3>3. \/ \E c \in Artifact, tier \in Tiers :
               /\ IsBaseline(c, tier, job[w].target)
               /\ job' = [job EXCEPT ![w] = next(found(c, tier))]
          \/ \E x \in {"none", "failed"} :
               job' = [job EXCEPT ![w] = next([outcome |-> x])]
      BY <1>3 DEF Select
    <3>4. QED
      BY <3>1, <3>2, <3>3
  <2>3. selection.outcome = "selected" => Carried(selection.baseline)'
    BY <2>1, <2>2, BaselineIsCarried, CarriedStays
  <2>4. /\ next(selection).stage = "examining"
        /\ next(selection).selection = selection
    OBVIOUS
  <2> HIDE DEF next
  <2>5. ASSUME NEW v \in Worker
        PROVE  job'[v] = IF v = w THEN next(selection) ELSE job[v]
    BY <2>2 DEF TypeOK
  <2>6. BaselinesAreCarried'
    BY <2>1, <2>3, <2>4, <2>5, CarriedStays DEF Lineages, BaselinesAreCarried, Selected
  <2>7. TargetsAreCarried'
    BY <2>1, <2>4, <2>5, CarriedStays DEF Lineages, TargetsAreCarried
  <2>8. QED
    BY <2>1, <2>6, <2>7, StatesStayCarried DEF Lineages, OverridesAreApproved
<1>4. ASSUME NEW w \in Worker, Examine(w) PROVE Lineages'
  <2>1. UNCHANGED <<content, state, manual, approved>>
    BY <1>4 DEF Examine, store, history
  <2> DEFINE next(F, within) ==
               [stage |-> "reporting", target |-> job[w].target,
                report |-> Report(job[w], F, within),
                faults |-> F # {} \/ job[w].selection.outcome = "failed"]
  <2>2. PICK F \in SUBSET Faults(job[w]), within \in BOOLEAN :
          job' = [job EXCEPT ![w] = next(F, within)]
    BY <1>4 DEF Examine
  <2>3. job[w] \in Examination /\ job[w].stage = "examining"
    BY <1>4, StageOfJob DEF Examine, TypeOK
  <2>4. PICK made : made = next(F, within)
    OBVIOUS
  <2>5. /\ made.stage = "reporting"
        /\ made.report = Report(job[w], F, within)
        /\ made.target = job[w].target
    BY <2>4
  <2>6. ASSUME NEW v \in Worker
        PROVE  job'[v] = IF v = w THEN made ELSE job[v]
    BY <2>2, <2>4 DEF TypeOK
  <2> HIDE DEF next
  <2>7. Decision(made.report) = "ALLOW" => Carried(made.target)'
    <3>1. SUFFICES ASSUME Decision(made.report) = "ALLOW" PROVE Carried(made.target)
      BY <2>1, CarriedStays
    <3>2. /\ Selected(job[w])
          /\ Evidence(content[job[w].target])
               \subseteq Evidence(content[job[w].selection.baseline])
      BY <2>3, <2>5, <3>1, AllowedAddsNothing DEF TypeOK
    <3>3. Carried(job[w].selection.baseline)
      BY <2>3, <3>2 DEF Lineages, BaselinesAreCarried
    <3>4. QED
      BY <2>5, <3>2, <3>3 DEF Carried
  <2>8. TargetsAreCarried'
    <3>1. ASSUME NEW v \in Worker PROVE job'[v] = made \/ job'[v] = job[v]
      BY <2>6
    <3>2. QED
      BY <2>1, <2>7, <3>1, CarriedStays DEF Lineages, TargetsAreCarried
  <2>9. BaselinesAreCarried'
    BY <2>1, <2>5, <2>6, CarriedStays DEF Lineages, BaselinesAreCarried, Selected
  <2>10. QED
    BY <2>1, <2>8, <2>9, StatesStayCarried DEF Lineages, OverridesAreApproved
<1>5. ASSUME NEW w \in Worker, RecordError(w) PROVE Lineages'
  <2>1. UNCHANGED <<content, manual, approved>>
    BY <1>5 DEF RecordError, history
  <2>2. job[w].target \in Artifact
    BY <1>5, NonEmptyJob DEF RecordError, TypeOK
  <2>3. AllowedIsCarried'
    BY <1>5, <2>1, <2>2, StateEffect, StatesStayCarried DEF RecordError
  <2>4. BaselinesAreCarried' /\ TargetsAreCarried'
    BY <1>5, <2>1, Workless, JobsStayCarried DEF RecordError
  <2>5. QED
    BY <2>1, <2>3, <2>4 DEF Lineages, OverridesAreApproved
<1>6. ASSUME NEW w \in Worker, RecordVerdict(w) PROVE Lineages'
  <2>1. UNCHANGED <<content, manual, approved>>
    BY <1>6 DEF RecordVerdict
  <2>2. job[w].target \in Artifact
    BY <1>6, StageOfJob DEF RecordVerdict, TypeOK
  <2>3. Decision(job[w].report) = "ALLOW" => Carried(job[w].target)
    BY <1>6 DEF RecordVerdict, Lineages, TargetsAreCarried
  <2>4. ASSUME NEW a \in Artifact, state'[a] = "ALLOW" PROVE Carried(a)
    <3>1. state' = [state EXCEPT ![job[w].target] = Decision(job[w].report)]
      BY <1>6 DEF RecordVerdict
    <3>2. QED
      BY <2>2, <2>3, <2>4, <3>1, StateEffect DEF Lineages, AllowedIsCarried
  <2>5. AllowedIsCarried'
    BY <2>1, <2>4, CarriedStays DEF AllowedIsCarried
  <2>6. BaselinesAreCarried' /\ TargetsAreCarried'
    BY <1>6, <2>1, Workless, JobsStayCarried DEF RecordVerdict
  <2>7. QED
    BY <2>1, <2>5, <2>6 DEF Lineages, OverridesAreApproved
<1>7. ASSUME NEW w \in Worker, Recover(w) PROVE Lineages'
  <2>1. UNCHANGED <<content, manual, approved>>
    BY <1>7 DEF Recover, history
  <2>2. job[w].target \in Artifact
    BY <1>7, NonEmptyJob DEF Recover, TypeOK
  <2>3. AllowedIsCarried'
    BY <1>7, <2>1, <2>2, StateEffect, StatesStayCarried DEF Recover
  <2>4. BaselinesAreCarried' /\ TargetsAreCarried'
    BY <1>7, <2>1, Workless, JobsStayCarried DEF Recover
  <2>5. QED
    BY <2>1, <2>3, <2>4 DEF Lineages, OverridesAreApproved
<1>8. ASSUME NEW a \in Artifact, NEW decision \in {"ALLOW", "DENY"},
             SetOverride(a, decision)
      PROVE  Lineages'
  <2>1. /\ UNCHANGED <<content, state, job>>
        /\ approved \subseteq approved'
    BY <1>8 DEF SetOverride
  <2>2. OverridesAreApproved'
    BY <1>8 DEF SetOverride, Lineages, OverridesAreApproved, TypeOK
  <2>3. QED
    BY <2>1, <2>2, StatesStayCarried, JobsStayCarried DEF Lineages
<1>9. ASSUME NEW a \in Artifact, OverrideEnds(a) \/ Rescan(a) PROVE Lineages'
  <2>1. UNCHANGED <<content, job, approved>>
    BY <1>9 DEF OverrideEnds, Rescan, history
  <2>2. OverridesAreApproved'
    BY <1>9, <2>1 DEF OverrideEnds, Rescan, Lineages, OverridesAreApproved, TypeOK
  <2>3. \A b \in Artifact : state'[b] = "ALLOW" => state[b] = "ALLOW"
    BY <1>9, StateEffect DEF OverrideEnds, Rescan
  <2>4. QED
    BY <2>1, <2>2, <2>3, StatesStayCarried, JobsStayCarried DEF Lineages
<1>10. ASSUME UNCHANGED <<content, state, manual, job, approved>> PROVE Lineages'
  BY <1>10, StatesStayCarried, JobsStayCarried DEF Lineages, OverridesAreApproved
<1>11. ASSUME NEW a \in Artifact,
              \/ CooldownEnds(a)
              \/ \E enabled \in BOOLEAN : SetEligibility(a, enabled)
       PROVE  UNCHANGED <<content, state, manual, job, approved>>
  BY <1>11 DEF CooldownEnds, SetEligibility, history
<1>12. ASSUME UNCHANGED vars PROVE UNCHANGED <<content, state, manual, job, approved>>
  BY <1>12 DEF vars, store, history
<1>13. QED
  BY <1>1, <1>2, <1>3, <1>4, <1>5, <1>6, <1>7, <1>8, <1>9, <1>10, <1>11, <1>12 DEF Next

\* Whatever an automatically allowed artifact does, an administrator once allowed the
\* same in the same file, through any number of releases, workers and revocations.
THEOREM NothingIsLaundered == Spec => []NoLaundering
<1>1. Lineages => NoLaundering
  BY DEF Lineages, AllowedIsCarried, Carried, ApprovedEvidence, NoLaundering
<1>2. CASE RequireBaseline
  <2>1. Init => TypeOK /\ Lineages
    BY InitTypeOK, InitLineages
  <2>2. TypeOK /\ Lineages /\ [Next]_vars => (TypeOK /\ Lineages)'
    BY <1>2, NextTypeOK, NextLineages
  <2>3. QED
    BY <1>1, <2>1, <2>2, PTL DEF Spec
<1>3. CASE ~RequireBaseline
  <2>1. NoLaundering
    BY <1>3 DEF NoLaundering
  <2>2. QED
    BY <2>1, PTL
<1>4. QED
  BY <1>2, <1>3

================================================================================
