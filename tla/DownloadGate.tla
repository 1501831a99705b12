----------------------------- MODULE DownloadGate -----------------------------
(***************************************************************************)
(* The two places where a decision of the store meets a user: the tween    *)
(* that gates file requests (enforcement/tween.py, resolve.py, metrics.py) *)
(* and the filter of the simple index (GuardianStage in plugin.py), both   *)
(* through SQLiteVerdictReader.get_effective_decisions.                    *)
(*                                                                         *)
(* A session is one request: it arrives, the reader takes the time, then   *)
(* opens a read transaction, and the answer is produced later.  The store  *)
(* (all of VerdictStore) takes steps in between.  The tween runs under     *)
(* devpi's key-value transaction, so what a target says of devpi's own     *)
(* records does not change during a session.                               *)
(***************************************************************************)
EXTENDS VerdictStore, FiniteSetsExt

CONSTANTS
    Session,      \* requests that may be under way at once
    Nothing,      \* stands for the digest "unknown"
    MaxSeries,    \* max_series of InMemoryBlockMetricRecorder
    MaxArrivals   \* bound on the number of requests

ASSUME GateAssumption ==
    /\ MaxSeries \in Nat \ {0}
    /\ MaxArrivals \in Nat

VARIABLES
    session,      \* the requests under way
    arrivals,     \* number of requests so far
    counts,       \* _counts: blocks by dimensions
    blocked,      \* number of requests that the tween refused (history)
    allowedSeen   \* what was allowed at some instant since the arrival (history)

gateVars == <<session, arrivals, counts, blocked, allowedSeen>>

-----------------------------------------------------------------------------
(* resolve_release_sha256: which digest a request stands for.              *)

\* What the request and devpi's records say: canonical is _classify_path's verdict on
\* the path, routed that of the cross-check with Pyramid; a +f entry may appear only
\* after the project was listed again.
Targets ==
    [method : {"GET", "POST"}, marker : {"+f", "+e", "none"},
     canonical : BOOLEAN, routed : BOOLEAN,
     entry : {"present", "after_refresh", "absent"}, consistent : BOOLEAN,
     link : {"release", "other", "none"}, content : Artifact]

Protected(t) == t.method = "GET" /\ t.marker # "none"

EntryFound(t) ==
    \/ t.entry = "present"
    \/ t.entry = "after_refresh" /\ t.marker = "+f"

Identified(t) ==
    /\ t.canonical /\ t.routed
    /\ EntryFound(t)
    /\ t.consistent
    /\ t.link # "none"

Resolve(t) ==
    IF ~Protected(t) THEN "handler"
    ELSE IF ~Identified(t) THEN "unavailable"
    ELSE IF t.link = "other" THEN "handler"
    ELSE "release"          \* with the digest t.content

\* devpi's own handler: the release file that it would send for the request.
FileBehind(t) ==
    IF Protected(t) /\ t.link = "release" THEN {t.content} ELSE {}

-----------------------------------------------------------------------------
(* The reader's answer as of the time t, and the two ways to use it.       *)

OverrideInForce(a, t) == override[a] # NoOverride /\ override[a].expires > t

DecisionAt(a, t) ==
    LET manual == OverrideInForce(a, t)
        effective == IF manual THEN override[a].decision ELSE FallbackDecision(a)
    IN [effective |-> effective,
        source |-> IF state[a] = "MISSING" THEN "missing"
                   ELSE IF manual THEN "manual_override" ELSE "automated",
        allowed |-> effective = "ALLOW" /\ (manual \/ cooldown[a] <= t),
        artifactState |-> state[a],
        versioned |-> verdict[a] # "NONE"]

\* Faulty variant: a policy version is asked for whatever the state.
IsVersionedAllow(d) ==
    /\ d.allowed /\ d.effective = "ALLOW" /\ d.versioned
    /\ \/ d.source = "automated" /\ d.artifactState = "ALLOW"
       \/ d.source = "manual_override" /\ d.artifactState \in TerminalStates

\* An artifact whose analysis failed has a policy version only if an earlier one
\* succeeded.
IsExactAllow(d) ==
    /\ d.allowed /\ d.effective = "ALLOW"
    /\ \/ d.source = "automated" /\ d.artifactState = "ALLOW" /\ d.versioned
       \/ d.source = "manual_override" /\ d.artifactState \in VerdictStates /\ d.versioned
       \/ d.source = "manual_override" /\ d.artifactState = "ERROR"

-----------------------------------------------------------------------------
(* Blocks are counted under a lock, at most MaxSeries series and one more. *)

Routes == {"+f", "+e"}
Categories == {"identity_unavailable", "store_unavailable", "not_allowed"}
Dimensions ==
    [route : Routes, sha : Artifact \cup {Nothing},
     effective : {"ALLOW", "DENY", "unknown"}, category : Categories]
Overflow ==
    [route |-> "unknown", sha |-> Nothing, effective |-> "unknown",
     category |-> "cardinality_overflow"]

Series == {d \in Dimensions : counts[d] > 0}

\* Faulty variant: a new series is dropped when the table is full.
RecordBlockOrDrop(d) ==
    counts' = IF d \in Series \/ Cardinality(Series) < MaxSeries
              THEN [counts EXCEPT ![d] = @ + 1] ELSE counts

RecordBlock(d) ==
    counts' = IF d \in Series \/ Cardinality(Series) < MaxSeries
              THEN [counts EXCEPT ![d] = @ + 1]
              ELSE [counts EXCEPT ![Overflow] = @ + 1]

\* The tween answers 404 or 503.
Block(route, sha, effective, category) ==
    /\ RecordBlock([route |-> route, sha |-> sha, effective |-> effective,
                    category |-> category])
    /\ blocked' = blocked + 1

NoBlock == UNCHANGED <<counts, blocked>>

-----------------------------------------------------------------------------
Stages == {"idle", "resolved", "timed", "decided", "answered"}
Kinds == {"file", "page"}
Idle == [stage |-> "idle", kind |-> "file", route |-> "+f", asked |-> {},
         asOf |-> 0, shown |-> {}]

GateTypeOK ==
    /\ session \in [Session ->
         [stage : Stages, kind : Kinds, route : Routes, asked : SUBSET Artifact,
          asOf : Nat, shown : SUBSET Artifact]]
    /\ arrivals \in Nat
    /\ counts \in [Dimensions \cup {Overflow} -> Nat]
    /\ blocked \in Nat
    /\ allowedSeen \in [Session -> SUBSET Artifact]

GateInit ==
    /\ Init
    /\ session = [s \in Session |-> Idle]
    /\ arrivals = 0
    /\ counts = [d \in Dimensions \cup {Overflow} |-> 0]
    /\ blocked = 0
    /\ allowedSeen = [s \in Session |-> {}]

\* The history: what a session asks for and is allowed at this instant.
Observe ==
    allowedSeen' = [s \in Session |->
        IF session'[s].stage = "idle" THEN {}
        ELSE allowedSeen[s] \cup {a \in session'[s].asked : Allowed(a)'}]

Step(s, to) == session' = [session EXCEPT ![s] = to]

\* A file request: the tween resolves it before it asks the reader.
RequestFile(s, t) ==
    LET outcome == Resolve(t)
        begun == [Idle EXCEPT !.route = IF t.marker = "+e" THEN "+e" ELSE "+f",
                              !.asked = FileBehind(t)]
    IN
    /\ session[s].stage = "idle"
    /\ arrivals < MaxArrivals
    /\ arrivals' = arrivals + 1
    /\ \/ /\ outcome = "handler"
          /\ Step(s, [begun EXCEPT !.stage = "answered", !.shown = FileBehind(t)])
          /\ NoBlock
       \/ /\ outcome = "unavailable"
          /\ Step(s, [begun EXCEPT !.stage = "answered"])
          /\ Block(begun.route, Nothing, "unknown", "identity_unavailable")
       \/ /\ outcome = "release"
          /\ Step(s, [begun EXCEPT !.stage = "resolved", !.asked = {t.content}])
          /\ NoBlock

\* A simple page with the files of S; links without a digest that resolves are hidden
\* and ask for nothing.
RequestPage(s, S) ==
    /\ session[s].stage = "idle"
    /\ arrivals < MaxArrivals
    /\ arrivals' = arrivals + 1
    /\ Step(s, [Idle EXCEPT !.stage = "resolved", !.kind = "page", !.asked = S])
    /\ NoBlock

\* Faulty variant: the reader goes by the time at which it was built.
TakeTimeOfStart(s) ==
    /\ session[s].stage = "resolved"
    /\ Step(s, [session[s] EXCEPT !.stage = "timed", !.asOf = 0])
    /\ NoBlock
    /\ UNCHANGED arrivals

TakeTime(s) ==
    /\ session[s].stage = "resolved"
    /\ Step(s, [session[s] EXCEPT !.stage = "timed", !.asOf = clock])
    /\ NoBlock
    /\ UNCHANGED arrivals

Granted(s) ==
    {a \in session[s].asked :
        LET d == DecisionAt(a, session[s].asOf) IN
        IF session[s].kind = "file" THEN IsExactAllow(d) ELSE d.allowed}

\* One read transaction for all digests of the session.  A page with files that were
\* never seen queues them first, all or none; a full queue answers 503.
ReadDecisions(s) ==
    LET granted == Granted(s) IN
    /\ session[s].stage = "timed"
    /\ IF session[s].kind = "file" /\ granted = {}
       THEN \E a \in session[s].asked :
              /\ Step(s, [session[s] EXCEPT !.stage = "answered"])
              /\ Block(session[s].route, a,
                       DecisionAt(a, session[s].asOf).effective, "not_allowed")
       ELSE /\ \/ Step(s, [session[s] EXCEPT !.stage = "decided", !.shown = granted])
               \/ /\ session[s].kind = "page"
                  /\ \E a \in session[s].asked : state[a] = "MISSING"
                  /\ Step(s, [session[s] EXCEPT !.stage = "answered"])
            /\ NoBlock
    /\ UNCHANGED arrivals

\* StoreUnavailable: the database cannot be read.
ReadFails(s) ==
    /\ session[s].stage = "timed"
    /\ Step(s, [session[s] EXCEPT !.stage = "answered"])
    /\ IF session[s].kind = "page" THEN NoBlock
       ELSE \E a \in session[s].asked :
              Block(session[s].route, a, "unknown", "store_unavailable")
    /\ UNCHANGED arrivals

\* The handler sends the file, or devpi renders the page with the links that passed.
Answer(s) ==
    /\ session[s].stage = "decided"
    /\ Step(s, [session[s] EXCEPT !.stage = "answered"])
    /\ NoBlock
    /\ UNCHANGED arrivals

Leave(s) ==
    /\ session[s].stage = "answered"
    /\ Step(s, Idle)
    /\ NoBlock
    /\ UNCHANGED arrivals

GateStep ==
    \E s \in Session :
        \/ \E t \in Targets : RequestFile(s, t)
        \/ \E S \in SUBSET Artifact : RequestPage(s, S)
        \/ TakeTime(s)
        \/ ReadDecisions(s)
        \/ ReadFails(s)
        \/ Answer(s)
        \/ Leave(s)

GateNext ==
    \/ Next /\ UNCHANGED <<session, arrivals, counts, blocked>> /\ Observe
    \/ GateStep /\ UNCHANGED vars /\ Observe

GateSpec == GateInit /\ [][GateNext]_<<vars, gateVars>>

-----------------------------------------------------------------------------
(* What makes the gate correct. *)

\* A file that is sent and a link that is listed were allowed at some instant between
\* the arrival of the request and the answer, although the time is taken before the
\* rows are read, both before the answer is given, and an override may expire, be set
\* or be revoked, a cooldown end and a rescan begin in between.
ServedWasAllowed ==
    \A s \in Session :
        session[s].stage = "answered" => session[s].shown \subseteq allowedSeen[s]

\* The filter and the tween agree on every decision that the reader can return: a
\* link that is listed is not refused by the tween, and none that it would send is
\* hidden.
ListedIsServed ==
    \A a \in Artifact, t \in Time :
        DecisionAt(a, t).allowed <=> IsExactAllow(DecisionAt(a, t))

\* Each refusal of the tween is in the metrics exactly once, and the table stays
\* within its limit plus the series of the overflow.
BlocksAreCounted ==
    /\ MapThenSumSet(LAMBDA d : counts[d], Series \cup {Overflow}) = blocked
    /\ Cardinality(Series) <= MaxSeries

==============================================================================
