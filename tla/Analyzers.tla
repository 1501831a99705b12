------------------------------- MODULE Analyzers -------------------------------
(***************************************************************************)
(* The three analyses of an artifact, as functions of what the archives    *)
(* hold: F7 compares it with an older approved release (baseline/diff.py), *)
(* F8 looks at what runs during installation and start-up                  *)
(* (analyzers/install_surface.py), F9 compares the source distribution and *)
(* the wheel of one release (analyzers/sdist_wheel.py).                    *)
(*                                                                         *)
(* A file is told apart by its digest.  What the parsers see in it is a    *)
(* set of sites: a call, a dynamic import or an overridden install         *)
(* command, with its resolved name, its text, its line, whether it runs on *)
(* import, and the credential that flows into it, if one does.             *)
(* The paths are the logical ones, after the prefix of a source            *)
(* distribution is stripped and metadata is left out.                      *)
(***************************************************************************)
EXTENDS Naturals, FiniteSets

CONSTANTS
    Path,        \* logical paths
    Suffix(_),   \* what the name of a path ends in
    Uses(_),     \* what installer and interpreter do with a path
    File,        \* contents of files, told apart by their digests
    Parsed(_),   \* the parser accepts the file, within its limits
    Tree(_, _),  \* its syntax tree under a path, without lines and docstrings
    Sites(_),    \* what scan_calls finds in it; nothing in a script of another language
    Effect(_),   \* what a call of that name does, or the module of that name offers
    Lines(_),    \* executable lines of a .pth file
    Entry,       \* console and GUI commands
    Identity,    \* project and version that the metadata states, or Unstated
    Unstated,    \* they cannot be read
    Requirement  \* normalized requirements

NoCredential == "none"

Suffixes == {"py", "pth", "library", "exe", "other"}
PathUses == {"setup", "init", "customize", "script"}

\* The os module gives access to processes and files; only F8 looks at its imports.
Effects == {"process", "network", "dynamic_exec", "file_write", "os", "part of os", "none"}
RiskyEffects == {"process", "network", "dynamic_exec"}

\* A name is that of a module or of something that can be called, never of both.
ASSUME AnalyzersAssumption ==
    /\ \A p \in Path : Suffix(p) \in Suffixes /\ Uses(p) \subseteq PathUses
    /\ \A f \in File : \A s \in Sites(f) :
         /\ s \in [kind : {"call", "import", "cmdclass"}, name : STRING, text : STRING,
                   line : Nat, onImport : BOOLEAN, source : STRING]
         /\ Effect(s.name) \in Effects

\* What extract_artifact returns, with what the metadata says: an unusable archive has a
\* finding and no files.  Requirements before Metadata 2.2, or dynamic before 2.6, are not
\* compared; since 2.6 a wheel may add to dynamic ones.
Contents ==
    [refusal : {"none", "archive_unsafe_member", "archive_bomb", "analyzer_error"},
     files : UNION {[S -> File] : S \in SUBSET Path}, executable : SUBSET Path,
     entries : SUBSET Entry, recordValid : BOOLEAN, pure : BOOLEAN,
     identity : Identity, requires : SUBSET Requirement,
     stated : {"fixed", "dynamic", "incomparable"},
     backend : SUBSET {"unknown", "outside"}, unreadable : BOOLEAN]

Usable(c) == c.refusal = "none"
Paths(c) == DOMAIN c.files
PythonPaths(c) == {p \in Paths(c) : Suffix(p) = "py"}

-----------------------------------------------------------------------------
(* Findings: a rule and the action it asks for (analyzers/rules.py).       *)
(* Rules that differ only in what they tell are one: those on commands and *)
(* network in setup.py, on what RECORD lacks, on build backends and        *)
(* requirements nobody knows, on source that cannot be parsed or exceeds a *)
(* limit.  The rule on imports of a package, which asks for DENY if a      *)
(* credential flows, is two.                                               *)

DenyRules ==
    {"setup_py_risky", "init_credential", "unsafe_backend_path", "executable_pth",
     "customize_module", "wheel_install_script_credential_network",
     "archive_unsafe_member", "archive_bomb", "wheel_record_integrity",
     "wheel_only_risky_python", "wheel_only_executable_pth",
     "wheel_only_credential_network", "baseline_new_credential_network",
     "baseline_new_risky_python", "baseline_new_executable_pth"}
ReviewRules ==
    {"setup_py_file_write", "init_top_level_side_effect", "nonstandard_build_backend",
     "entry_point", "native_or_executable", "wheel_install_script",
     "wheel_install_script_risky", "wheel_only_native", "entry_point_mismatch",
     "python_ast_mismatch", "requires_dist_mismatch", "artifact_identity_mismatch",
     "unsupported_wheel_scope", "ast_parse_failed", "analyzer_error",
     "baseline_new_native", "baseline_new_entry_point"}
Rules == DenyRules \cup ReviewRules

Action(rule) == IF rule \in DenyRules THEN "DENY" ELSE "REVIEW"

\* The rule, if there is something to report.
When(condition, rule) == IF condition THEN {rule} ELSE {}

\* Why archives of the set S cannot be used.
Refusals(S) == {x.refusal : x \in S} \ {"none"}

-----------------------------------------------------------------------------
(* What a Python file does. *)

Flows(f) == {s \in Sites(f) : s.source # NoCredential}
FlowKey(s) == <<s.source, s.name, s.text>>
CallKey(s) == <<s.name, s.text>>

\* A call at the line of a flow with the name of its sink is the flow's own.
FlowSinks(f) == {<<s.line, s.name>> : s \in Flows(f)}
Acts(f, effects) ==
    {s \in Sites(f) : /\ s.kind \in {"call", "import"}
                      /\ Effect(s.name) \in effects
                      /\ s.kind = "call" => <<s.line, s.name>> \notin FlowSinks(f)}
Risky(f) == Acts(f, RiskyEffects)

\* What an earlier release of the same file was approved with: nothing, if the file
\* is new or cannot be parsed.
CarriedFlows(f) == IF Parsed(f) THEN {FlowKey(s) : s \in Flows(f)} ELSE {}
CarriedCalls(f) ==
    IF Parsed(f)
    THEN {CallKey(s) : s \in {t \in Sites(f) :
             \/ t.kind = "import"
             \/ t.kind = "call" /\ Effect(t.name) \in RiskyEffects}}
    ELSE {}

-----------------------------------------------------------------------------
(* F7: what the artifact c does that its baseline b did not.               *)

Added(b, c) == Paths(c) \ Paths(b)
Changed(b, c) == {p \in Paths(c) \cap Paths(b) : c.files[p] # b.files[p]}

NewInPython(p, b, c) ==
    LET f == c.files[p]
        flows == IF p \in Paths(b) THEN CarriedFlows(b.files[p]) ELSE {}
        calls == IF p \in Paths(b) THEN CarriedCalls(b.files[p]) ELSE {}
    IN IF ~Parsed(f) THEN {"ast_parse_failed"}
       ELSE When(\E s \in Flows(f) : FlowKey(s) \notin flows,
                 "baseline_new_credential_network")
            \cup When(\E s \in Risky(f) : CallKey(s) \notin calls,
                      "baseline_new_risky_python")

NewInPth(p, b, c) ==
    LET lines == IF p \in Paths(b) THEN Lines(b.files[p]) ELSE {}
    IN When(~(Lines(c.files[p]) \subseteq lines), "baseline_new_executable_pth")

\* A library that was there before is rebuilt in every release.
NewInFile(p, b, c) ==
    CASE Suffix(p) = "py" -> NewInPython(p, b, c)
      [] Suffix(p) = "pth" -> NewInPth(p, b, c)
      [] Suffix(p) = "library" -> When(p \in Added(b, c), "baseline_new_native")
      [] OTHER -> {}

NewInFiles(b, c) == UNION {NewInFile(p, b, c) : p \in Added(b, c) \cup Changed(b, c)}

NewCommands(b, c) == When(~(c.entries \subseteq b.entries), "baseline_new_entry_point")

BaselineFindings(b, c) ==
    IF ~Usable(b) \/ ~Usable(c) THEN Refusals({b, c})
    ELSE NewInFiles(b, c) \cup NewCommands(b, c)

-----------------------------------------------------------------------------
(* F8: what runs while c is installed or whenever Python starts.           *)

SetupFindings(f) ==
    IF ~Parsed(f) THEN {"ast_parse_failed"}
    ELSE When(\E s \in Sites(f) : \/ s.kind = "cmdclass"
                                 \/ Effect(s.name) \in {"process", "network", "os"},
              "setup_py_risky")
         \cup When(\E s \in Sites(f) : s.kind = "call" /\ Effect(s.name) = "file_write",
                   "setup_py_file_write")

\* Calls of a package's __init__ that run on import, a few harmless ones excepted.
InitFindings(f) ==
    LET initial == {s \in Sites(f) : s.onImport}
    IN IF ~Parsed(f) THEN {"ast_parse_failed"}
       ELSE When(\E s \in initial : s.source # NoCredential, "init_credential")
            \cup When(\E s \in initial : s.source = NoCredential,
                      "init_top_level_side_effect")

ScriptFindings(f) ==
    LET effects == RiskyEffects \cup {"file_write", "os", "part of os"}
    IN {"wheel_install_script"}
       \cup (IF ~Parsed(f) THEN {"ast_parse_failed"}
             ELSE When(Flows(f) # {}, "wheel_install_script_credential_network")
                  \cup When(Acts(f, effects) # {}, "wheel_install_script_risky"))

\* Each test of the scan on its own: a path may pass several.
SurfaceOfFile(p, kind, c) ==
    LET f == c.files[p]
    IN (IF "setup" \in Uses(p) /\ kind = "sdist" THEN SetupFindings(f) ELSE {})
       \cup When(Suffix(p) = "pth" /\ Lines(f) # {}, "executable_pth")
       \cup When("customize" \in Uses(p), "customize_module")
       \cup (IF "init" \in Uses(p) THEN InitFindings(f) ELSE {})
       \cup (IF "script" \in Uses(p) /\ kind = "wheel" THEN ScriptFindings(f) ELSE {})
       \cup When(p \in c.executable \/ Suffix(p) \in {"library", "exe"},
                 "native_or_executable")

BackendFindings(c) ==
    When("unknown" \in c.backend, "nonstandard_build_backend")
    \cup When("outside" \in c.backend, "unsafe_backend_path")

RecordFindings(c) == When(~c.recordValid, "wheel_record_integrity")

\* Files that cannot be parsed declare nothing.
CommandFindings(c) ==
    When(c.entries # {}, "entry_point") \cup When(c.unreadable, "analyzer_error")

SurfaceOfFiles(kind, c) == UNION {SurfaceOfFile(p, kind, c) : p \in Paths(c)}

SurfaceFindings(kind, c) ==
    IF ~Usable(c) THEN {c.refusal}
    ELSE SurfaceOfFiles(kind, c)
         \cup CommandFindings(c)
         \cup (IF kind = "wheel" THEN RecordFindings(c) ELSE BackendFindings(c))

-----------------------------------------------------------------------------
(* F9: what the wheel w has that the source distribution s has not.        *)

OnlyInWheel(p, w) ==
    LET f == w.files[p] IN
    CASE Suffix(p) = "py" ->
           IF ~Parsed(f) THEN {"ast_parse_failed"}
           ELSE When(Flows(f) # {}, "wheel_only_credential_network")
                \cup When(Risky(f) # {}, "wheel_only_risky_python")
      [] Suffix(p) = "pth" -> When(Lines(f) # {}, "wheel_only_executable_pth")
      [] Suffix(p) = "library" -> {"wheel_only_native"}
      [] OTHER -> {}

\* Files of the same name are compared by their syntax trees.
InBoth(p, s, w) ==
    IF ~Parsed(s.files[p]) \/ ~Parsed(w.files[p]) THEN {"ast_parse_failed"}
    ELSE When(Tree(p, s.files[p]) # Tree(p, w.files[p]), "python_ast_mismatch")

Identified(c) == c.identity # Unstated

RequiresDiffer(s, w) ==
    CASE s.stated = "fixed" -> s.requires # w.requires
      [] s.stated = "dynamic" -> ~(s.requires \subseteq w.requires)
      [] OTHER -> FALSE

EntriesDiffer(s, w) == s.entries # w.entries

MetadataDiffers(s, w) ==
    When(RequiresDiffer(s, w), "requires_dist_mismatch")
    \cup When(EntriesDiffer(s, w), "entry_point_mismatch")

SharedFindings(s, w) ==
    UNION {InBoth(p, s, w) : p \in PythonPaths(s) \cap PythonPaths(w)}

AddedFindings(s, w) == UNION {OnlyInWheel(p, w) : p \in Paths(w) \ Paths(s)}

\* Each of the first three answers ends the comparison.
PairFindings(s, w) ==
    IF ~Usable(s) \/ ~Usable(w) THEN Refusals({s, w})
    ELSE IF ~w.pure THEN {"unsupported_wheel_scope"}
    ELSE IF Identified(s) /\ Identified(w) /\ s.identity # w.identity
    THEN {"artifact_identity_mismatch"}
    ELSE MetadataDiffers(s, w) \cup SharedFindings(s, w) \cup AddedFindings(s, w)

-----------------------------------------------------------------------------
(* What an artifact does, by file and name.                                *)

EvidenceOf(p, f) ==
    CASE Suffix(p) = "py" ->
           IF Parsed(f) THEN {s.name : s \in Flows(f) \cup Risky(f)} ELSE {"unreadable"}
      [] Suffix(p) = "pth" -> Lines(f)
      [] Suffix(p) = "library" -> {"native"}
      [] OTHER -> {}

Evidence(c) ==
    UNION {{p} \X EvidenceOf(p, c.files[p]) : p \in Paths(c)}
    \cup {"entry points"} \X c.entries

===============================================================================
