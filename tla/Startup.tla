-------------------------------- MODULE Startup --------------------------------
(***************************************************************************)
(* How a devpi process becomes a Guardian (devpiserver_pyramid_configure   *)
(* in plugin.py): migrate the database (verdicts/db.py), verify the audit  *)
(* log, let Pyramid run the route and tween actions, and then, in the last *)
(* action, activate (activation.py, legacy_inventory.py), build the        *)
(* components and publish them.                                            *)
(*                                                                         *)
(* Several processes may start on one database, any of them may meet an    *)
(* exception at any step, and any may be killed.  The version rows and the *)
(* catalog of the schema are separate variables because migrate reads them *)
(* in separate transactions.  The write lock of SQLite is "lock"; it ends  *)
(* with its process.                                                       *)
(***************************************************************************)
EXTENDS Naturals, FiniteSets

CONSTANTS
    Process,     \* processes of devpi-server
    Replica,     \* those that are replicas: no quarantine, no worker
    Uuid,        \* identities of devpi servers
    None,        \* no marker, no lock holder
    UuidOf(_),   \* the identity a process is configured with
    Supported,   \* _SUPPORTED_SCHEMA_VERSION
    MaxStarts    \* bound on the number of starts

ASSUME StartupAssumption ==
    /\ Replica \subseteq Process
    /\ None \notin Uuid \cup Process
    /\ \A p \in Process : UuidOf(p) \in Uuid
    /\ Supported \in Nat \ {0}
    /\ MaxStarts \in Nat

VARIABLES
    version,      \* last row of schema_migrations; 0 without the table
    catalog,      \* the version whose objects the database has
    chainValid,   \* verify_audit_chain accepts the log
    marker,       \* guardian_activation.devpi_uuid
    lock,         \* holder of the write lock of the database
    devpi,        \* what devpi's key-value store holds
    durable,      \* directories and files that the components create
    starts,       \* number of starts so far
    pc,           \* where each process is
    seen,         \* migrate: the version it believes in
    open,         \* resources of the process that must be closed
    published,    \* what the process shows to devpi
    refused,      \* why the start failed
    overtaken,    \* somebody else has migrated since the start (history)
    seenEmpty,    \* inventory: devpi held no artifact at that instant (history)
    markedEmpty   \* seenEmpty of the process that set the marker (history)

disk == <<version, catalog, chainValid, marker, devpi, durable>>
memory == <<seen, open, published, refused, overtaken, seenEmpty>>
startupVars == <<disk, lock, starts, pc, memory, markedEmpty>>

-----------------------------------------------------------------------------
(* The inventory of what devpi held before the Guardian.                   *)

\* Persisted rows, by what they mean: a link to a release, a link to a documentation
\* zip or a test result, the file of such a link, any other file, a mirrored file,
\* and a row of a shape that is not understood.
Rows == {"release_link", "doc_link", "doc_file", "stage_file", "mirror_file", "malformed"}

\* Faulty variant: the file of a documentation link needs no link.
FindCandidateByName(rows) ==
    IF rows \cap {"malformed", "release_link", "mirror_file"} # {} THEN "candidate"
    ELSE "none"

\* A file is passed over only when a documentation or test link names it.
FindCandidate(rows) ==
    IF "malformed" \in rows THEN "unclassified"
    ELSE IF "release_link" \in rows THEN "release_link"
    ELSE IF \/ rows \cap {"mirror_file", "stage_file"} # {}
            \/ "doc_file" \in rows /\ "doc_link" \notin rows
         THEN "file_entry"
    ELSE "none"

HoldsArtifact(rows) == rows \cap {"release_link", "stage_file", "mirror_file"} # {}

-----------------------------------------------------------------------------
Stages ==
    {"down", "settings", "version", "catalog", "migrating", "audit", "configuring",
     "opening", "activating", "inventory", "marking", "directories", "queue",
     "session", "worker", "providers", "publishing", "registering", "running",
     "failed"}
BuildStages ==
    {"opening", "activating", "inventory", "marking", "directories", "queue",
     "session", "worker", "providers"}
PublishStages == {"publishing", "registering"}
Resources == {"quarantine", "session"}
Attributes == {"sink", "reader", "uploader", "registry"}
Causes == {"none", "migration", "activation", "other"}

TypeOK ==
    /\ version \in Nat /\ catalog \in Nat
    /\ chainValid \in BOOLEAN
    /\ marker \in Uuid \cup {None}
    /\ lock \in Process \cup {None}
    /\ devpi \subseteq Rows
    /\ durable \subseteq {"quarantine", "discovery"}
    /\ starts \in Nat
    /\ pc \in [Process -> Stages]
    /\ seen \in [Process -> Nat]
    /\ open \in [Process -> SUBSET Resources]
    /\ published \in [Process -> SUBSET (Attributes \cup {"routes", "worker"})]
    /\ refused \in [Process -> Causes]
    /\ overtaken \in [Process -> BOOLEAN]
    /\ seenEmpty \in [Process -> BOOLEAN]
    /\ markedEmpty \in BOOLEAN

\* A new installation, or what an earlier (or later) release left behind.
Init ==
    /\ version \in 0..(Supported + 1) /\ catalog = version
    /\ chainValid \in BOOLEAN
    /\ marker = None
    /\ lock = None
    /\ devpi \in SUBSET Rows
    /\ durable = {}
    /\ starts = 0
    /\ pc = [p \in Process |-> "down"]
    /\ seen = [p \in Process |-> 0]
    /\ open = [p \in Process |-> {}]
    /\ published = [p \in Process |-> {}]
    /\ refused = [p \in Process |-> "none"]
    /\ overtaken = [p \in Process |-> FALSE]
    /\ seenEmpty = [p \in Process |-> FALSE]
    /\ markedEmpty = FALSE

Goto(p, stage) == pc' = [pc EXCEPT ![p] = stage]

Primary(p) == p \notin Replica

-----------------------------------------------------------------------------
(* What happens when a step raises. *)

\* Faulty variant: _build_components closes what it opened only as long as it has not
\* begun to build the worker.
ClosedBeforeWorkerOnly(p) ==
    IF pc[p] \in (BuildStages \ {"providers"}) \cup PublishStages THEN Resources ELSE {}

\* build_worker_thread closes both when it fails itself; _build_components and publish
\* close them otherwise.
ClosedOnFailure(p) ==
    IF pc[p] \in BuildStages \cup PublishStages THEN Resources ELSE {}

\* _publish_components puts the attributes back, publish the routes and tweens.
RestoredOnFailure(p) ==
    IF pc[p] \in PublishStages THEN Attributes \cup {"routes"} ELSE {"routes"}

Release(p) == lock' = IF lock = p THEN None ELSE lock

Refuse(p, cause) ==
    /\ Goto(p, "failed")
    /\ refused' = [refused EXCEPT ![p] = cause]
    /\ open' = [open EXCEPT ![p] = @ \ ClosedOnFailure(p)]
    /\ published' = [published EXCEPT ![p] = @ \ RestoredOnFailure(p)]
    /\ Release(p)
    /\ UNCHANGED <<disk, starts, seen, overtaken, seenEmpty, markedEmpty>>

\* Any step may raise for a reason of its own: settings, files, the lock's timeout.
Raise(p) ==
    /\ pc[p] \notin {"down", "running", "failed"}
    /\ Refuse(p, "other")

\* The process ends, orderly or not; the open transaction is rolled back.
Stop(p) ==
    /\ pc[p] # "down"
    /\ Goto(p, "down")
    /\ open' = [open EXCEPT ![p] = {}]
    /\ published' = [published EXCEPT ![p] = {}]
    /\ refused' = [refused EXCEPT ![p] = "none"]
    /\ seen' = [seen EXCEPT ![p] = 0]
    /\ overtaken' = [overtaken EXCEPT ![p] = FALSE]
    /\ seenEmpty' = [seenEmpty EXCEPT ![p] = FALSE]
    /\ Release(p)
    /\ UNCHANGED <<disk, starts, markedEmpty>>

\* devpi without the Guardian, or a replica's stream, stores something.
DevpiStores(row) ==
    /\ row \notin devpi
    /\ devpi' = devpi \cup {row}
    /\ UNCHANGED <<version, catalog, chainValid, marker, durable, lock, starts, pc,
                   memory, markedEmpty>>

-----------------------------------------------------------------------------
(* Settings and migration. *)

Start(p) ==
    /\ pc[p] = "down"
    /\ starts < MaxStarts
    /\ starts' = starts + 1
    /\ Goto(p, "settings")
    /\ UNCHANGED <<disk, lock, memory, markedEmpty>>

ValidateSettings(p) ==
    /\ pc[p] = "settings"
    /\ Goto(p, "version")
    /\ UNCHANGED <<disk, lock, starts, memory, markedEmpty>>

ReadVersion(p) ==
    /\ pc[p] = "version"
    /\ \/ /\ version > Supported
          /\ Refuse(p, "migration")
       \/ /\ version <= Supported
          /\ seen' = [seen EXCEPT ![p] = version]
          /\ Goto(p, IF version = 0 THEN "migrating" ELSE "catalog")
          /\ UNCHANGED <<disk, lock, starts, open, published, refused, overtaken,
                         seenEmpty, markedEmpty>>

CheckCatalog(p) ==
    /\ pc[p] = "catalog"
    /\ \/ /\ catalog # seen[p]
          /\ Refuse(p, "migration")
       \/ /\ catalog = seen[p]
          /\ Goto(p, "migrating")
          /\ UNCHANGED <<disk, lock, starts, memory, markedEmpty>>

\* The next version was applied by p.
Applied(p) ==
    /\ seen' = [seen EXCEPT ![p] = @ + 1]
    /\ overtaken' = [q \in Process |->
                       overtaken[q] \/ (q # p /\ pc[q] \notin {"down", "failed"})]
    /\ UNCHANGED <<chainValid, marker, devpi, durable, lock, starts, pc, open,
                   published, refused, seenEmpty, markedEmpty>>

CanApply(p) == pc[p] = "migrating" /\ seen[p] < Supported /\ lock = None

\* Faulty variant: the script is not preceded by BEGIN IMMEDIATE, so that its
\* statements commit one by one before the version is inserted.
ApplyWithoutTransaction(p) ==
    /\ CanApply(p)
    /\ \/ /\ catalog # seen[p]
          /\ Refuse(p, "migration")
       \/ /\ catalog = seen[p]
          /\ catalog' = seen[p] + 1
          /\ version' \in {version, seen[p] + 1}
          /\ Applied(p)

\* One transaction: the script, the version row and the check of the catalog.  The
\* script of a version that is there already fails.
ApplyMigration(p) ==
    /\ CanApply(p)
    /\ \/ /\ catalog # seen[p]
          /\ Refuse(p, "migration")
       \/ /\ catalog = seen[p]
          /\ catalog' = seen[p] + 1
          /\ version' = seen[p] + 1
          /\ Applied(p)

Migrated(p) ==
    /\ pc[p] = "migrating"
    /\ seen[p] = Supported
    /\ Goto(p, "audit")
    /\ UNCHANGED <<disk, lock, starts, memory, markedEmpty>>

VerifyAudit(p) ==
    /\ pc[p] = "audit"
    /\ chainValid
    /\ Goto(p, "configuring")
    /\ UNCHANGED <<disk, lock, starts, memory, markedEmpty>>

\* Pyramid runs the actions that register routes, views and tweens, and then publish.
RunActions(p) ==
    /\ pc[p] = "configuring"
    /\ published' = [published EXCEPT ![p] = @ \cup {"routes"}]
    /\ Goto(p, "opening")
    /\ UNCHANGED <<disk, lock, starts, seen, open, refused, overtaken, seenEmpty,
                   markedEmpty>>

\* Faulty variant: the quarantine is initialized as soon as it is opened.
OpenQuarantineReady(p) ==
    /\ pc[p] = "opening"
    /\ open' = [open EXCEPT ![p] = IF Primary(p) THEN @ \cup {"quarantine"} ELSE @]
    /\ durable' = IF Primary(p) THEN durable \cup {"quarantine"} ELSE durable
    /\ Goto(p, "activating")
    /\ UNCHANGED <<version, catalog, chainValid, marker, devpi, lock, starts, seen,
                   published, refused, overtaken, seenEmpty, markedEmpty>>

\* The quarantine root is opened but not initialized.
OpenQuarantine(p) ==
    /\ pc[p] = "opening"
    /\ open' = [open EXCEPT ![p] = IF Primary(p) THEN @ \cup {"quarantine"} ELSE @]
    /\ Goto(p, "activating")
    /\ UNCHANGED <<disk, lock, starts, seen, published, refused, overtaken, seenEmpty,
                   markedEmpty>>

-----------------------------------------------------------------------------
(* ensure_guardian_activation: one BEGIN IMMEDIATE transaction around the  *)
(* marker and an inventory of another store.                               *)

AfterActivation(p) == IF Primary(p) THEN "directories" ELSE "queue"

ReadMarker(p) ==
    /\ pc[p] = "activating"
    /\ lock = None
    /\ \/ /\ marker = None
          /\ lock' = p
          /\ Goto(p, "inventory")
          /\ UNCHANGED <<disk, starts, memory, markedEmpty>>
       \/ /\ marker = UuidOf(p)
          /\ Goto(p, AfterActivation(p))
          /\ UNCHANGED <<disk, lock, starts, memory, markedEmpty>>
       \/ /\ marker \notin {None, UuidOf(p)}
          /\ Refuse(p, "activation")

\* One read transaction of the key-value store.
TakeInventory(p) ==
    /\ pc[p] = "inventory"
    /\ \/ /\ FindCandidate(devpi) # "none"
          /\ Refuse(p, "activation")
       \/ /\ FindCandidate(devpi) = "none"
          /\ seenEmpty' = [seenEmpty EXCEPT ![p] = ~HoldsArtifact(devpi)]
          /\ Goto(p, "marking")
          /\ UNCHANGED <<disk, lock, starts, seen, open, published, refused,
                         overtaken, markedEmpty>>

InsertMarker(p) ==
    /\ pc[p] = "marking"
    /\ marker' = UuidOf(p)
    /\ markedEmpty' = seenEmpty[p]
    /\ lock' = None
    /\ Goto(p, AfterActivation(p))
    /\ UNCHANGED <<version, catalog, chainValid, devpi, durable, starts, memory>>

-----------------------------------------------------------------------------
(* _build_components behind the activation, and _publish_components. *)

Build(p, stage, then, created, opened) ==
    /\ pc[p] = stage
    /\ durable' = durable \cup created
    /\ open' = [open EXCEPT ![p] = @ \cup opened]
    /\ Goto(p, then)
    /\ UNCHANGED <<version, catalog, chainValid, marker, devpi, lock, starts, seen,
                   published, refused, overtaken, seenEmpty, markedEmpty>>

BuildComponents(p) ==
    \/ Build(p, "directories", "queue", {"quarantine"}, {})
    \/ Build(p, "queue", IF Primary(p) THEN "session" ELSE "providers", {"discovery"}, {})
    \/ Build(p, "session", "worker", {}, {"session"})
    \/ Build(p, "worker", "providers", {}, {})
    \/ Build(p, "providers", "publishing", {}, {})

Publish(p, stage, then, shown) ==
    /\ pc[p] = stage
    /\ published' = [published EXCEPT ![p] = @ \cup shown]
    /\ Goto(p, then)
    /\ UNCHANGED <<disk, lock, starts, seen, open, refused, overtaken, seenEmpty,
                   markedEmpty>>

\* The worker is registered last, because a thread cannot be taken back.  A replica has
\* no upload connector and no worker.
PublishComponents(p) ==
    \/ Publish(p, "publishing", "registering",
               IF Primary(p) THEN Attributes ELSE Attributes \ {"uploader"})
    \/ Publish(p, "registering", "running", IF Primary(p) THEN {"worker"} ELSE {})

-----------------------------------------------------------------------------
Progress(p) ==
    \/ ValidateSettings(p) \/ ReadVersion(p) \/ CheckCatalog(p)
    \/ ApplyMigration(p) \/ Migrated(p) \/ VerifyAudit(p) \/ RunActions(p)
    \/ OpenQuarantine(p) \/ ReadMarker(p) \/ TakeInventory(p) \/ InsertMarker(p)
    \/ BuildComponents(p) \/ PublishComponents(p)

Next ==
    \/ \E p \in Process : Start(p) \/ Progress(p) \/ Raise(p) \/ Stop(p)
    \/ \E row \in Rows : DevpiStores(row)

Spec == Init /\ [][Next]_startupVars

-----------------------------------------------------------------------------
(* What makes the start correct. *)

\* Activation is the boundary of publication: no directory, no job database and no
\* component exists before the marker, a process that shows anything but its routes
\* runs under the marker of its own devpi server and on the schema it knows, and no
\* crash or race of starts ever leaves a state in which this is not so.
PublishedIsActivated ==
    /\ durable # {} => marker # None
    /\ \A p \in Process : published[p] \ {"routes"} # {} =>
          marker = UuidOf(p) /\ version = Supported /\ catalog = Supported

\* The marker was set by a process that had seen a devpi without release links and
\* without files other than documentation and test results.
MarkedWhenEmpty == marker # None => markedEmpty

\* A start that fails, wherever an exception hits it, leaves no route, no attribute,
\* no worker, no open resource and no lock.
FailedStartLeavesNothing ==
    \A p \in Process : pc[p] = "failed" =>
        published[p] = {} /\ open[p] = {} /\ lock # p

\* A start is refused by the migration only if a newer release owns the database or
\* somebody else migrated it meanwhile; so a start that runs alone goes through
\* whatever earlier crashes left.
RefusedForCause ==
    \A p \in Process : refused[p] = "migration" =>
        version > Supported \/ overtaken[p]

==============================================================================
