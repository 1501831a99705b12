----------------------------- MODULE StartupProofs -----------------------------
(***************************************************************************)
(* Theorems about the start of Guardian processes for any number of        *)
(* processes, servers, schema versions and starts.  The order is: types,   *)
(* the lock of the database, the schema, the marker, what a process shows. *)
(***************************************************************************)
EXTENDS Startup, TLAPS

-----------------------------------------------------------------------------
(* Type correctness. *)

\* A failing step keeps every variable in its type.
LEMMA RefuseTypeOK ==
  ASSUME TypeOK, NEW p \in Process, NEW cause \in Causes, Refuse(p, cause)
  PROVE  TypeOK'
  BY DEF TypeOK, Refuse, Goto, Release, Stages, disk

\* A step of a start that goes on keeps every variable in its type.
LEMMA ProgressTypeOK ==
  ASSUME TypeOK, NEW p \in Process, Progress(p)
  PROVE  TypeOK'
<1> USE StartupAssumption DEF StartupAssumption
<1>0. \A cause \in Causes : Refuse(p, cause) => TypeOK'
  BY RefuseTypeOK
<1>1. "migration" \in Causes /\ "activation" \in Causes
  BY DEF Causes
<1>2. CASE ValidateSettings(p) \/ Migrated(p) \/ VerifyAudit(p)
  BY <1>2 DEF ValidateSettings, Migrated, VerifyAudit, TypeOK, Goto, Stages, disk, memory
<1>3. CASE ReadVersion(p)
  <2>1. CASE Refuse(p, "migration")
    BY <1>0, <1>1, <2>1
  <2>2. CASE version <= Supported /\ seen' = [seen EXCEPT ![p] = version]
             /\ Goto(p, IF version = 0 THEN "migrating" ELSE "catalog")
             /\ UNCHANGED <<disk, lock, starts, open, published, refused, overtaken,
                            seenEmpty, markedEmpty>>
    <3>1. (IF version = 0 THEN "migrating" ELSE "catalog") \in Stages
      BY DEF Stages
    <3>2. pc' \in [Process -> Stages] /\ seen' \in [Process -> Nat]
      BY <2>2, <3>1 DEF Goto, TypeOK
    <3>3. QED
      BY <2>2, <3>2 DEF TypeOK, disk
  <2>3. QED
    BY <1>3, <2>1, <2>2 DEF ReadVersion
<1>4. CASE CheckCatalog(p)
  BY <1>0, <1>1, <1>4 DEF CheckCatalog, TypeOK, Goto, Stages, disk, memory
<1>5. CASE ApplyMigration(p)
  <2>1. CASE Refuse(p, "migration")
    BY <1>0, <1>1, <2>1
  <2>2. CASE catalog' = seen[p] + 1 /\ version' = seen[p] + 1 /\ Applied(p)
    <3>1. seen[p] + 1 \in Nat
      BY DEF TypeOK
    <3>2. seen' \in [Process -> Nat] /\ overtaken' \in [Process -> BOOLEAN]
      BY <2>2, <3>1 DEF Applied, TypeOK
    <3>3. QED
      BY <2>2, <3>1, <3>2 DEF Applied, TypeOK
  <2>3. QED
    BY <1>5, <2>1, <2>2 DEF ApplyMigration
<1>6. CASE RunActions(p)
  BY <1>6 DEF RunActions, TypeOK, Goto, Stages, disk
<1>7. CASE OpenQuarantine(p)
  BY <1>7 DEF OpenQuarantine, TypeOK, Goto, Stages, Resources, disk
<1>8. CASE ReadMarker(p)
  BY <1>0, <1>1, <1>8
     DEF ReadMarker, AfterActivation, TypeOK, Goto, Stages, disk, memory
<1>9. CASE TakeInventory(p)
  BY <1>0, <1>1, <1>9 DEF TakeInventory, HoldsArtifact, TypeOK, Goto, Stages, disk
<1>10. CASE InsertMarker(p)
  BY <1>10 DEF InsertMarker, AfterActivation, TypeOK, Goto, Stages, memory
<1>11. CASE BuildComponents(p)
  <2>1. ASSUME NEW stage, NEW then \in Stages,
               NEW created \in SUBSET {"quarantine", "discovery"},
               NEW opened \in SUBSET Resources, Build(p, stage, then, created, opened)
        PROVE  TypeOK'
    BY <2>1 DEF Build, Goto, TypeOK
  <2>2. {"queue", "session", "providers", "worker", "publishing"} \subseteq Stages
    BY DEF Stages
  <2>3. QED
    BY <1>11, <2>1, <2>2 DEF BuildComponents, Resources
<1>12. CASE PublishComponents(p)
  <2>1. ASSUME NEW stage, NEW then \in Stages,
               NEW shown \in SUBSET (Attributes \cup {"routes", "worker"}),
               Publish(p, stage, then, shown)
        PROVE  TypeOK'
    BY <2>1 DEF Publish, Goto, TypeOK, disk
  <2>2. "registering" \in Stages /\ "running" \in Stages
    BY DEF Stages
  <2>3. QED
    BY <1>12, <2>1, <2>2 DEF PublishComponents
<1>13. QED
  BY <1>2, <1>3, <1>4, <1>5, <1>6, <1>7, <1>8, <1>9, <1>10, <1>11, <1>12 DEF Progress

\* Every reachable state of the start is well typed (migrate, ensure_guardian_activation,
\* devpiserver_pyramid_configure).
THEOREM TypeCorrect == Spec => []TypeOK
<1> USE StartupAssumption DEF StartupAssumption
<1>1. Init => TypeOK
  <2> SUFFICES ASSUME Init
               PROVE  TypeOK
    OBVIOUS
  <2>1. version \in Nat /\ catalog \in Nat
    BY DEF Init
  <2>2. "down" \in Stages /\ "none" \in Causes
    BY DEF Stages, Causes
  <2>3. QED
    BY <2>1, <2>2 DEF Init, TypeOK
<1>2. TypeOK /\ [Next]_startupVars => TypeOK'
  <2> SUFFICES ASSUME TypeOK, [Next]_startupVars
               PROVE  TypeOK'
    OBVIOUS
  <2>1. ASSUME NEW p \in Process, Start(p)
        PROVE  TypeOK'
    BY <2>1 DEF Start, TypeOK, Goto, Stages, disk, memory
  <2>2. ASSUME NEW p \in Process, Progress(p)
        PROVE  TypeOK'
    BY <2>2, ProgressTypeOK
  <2>3. ASSUME NEW p \in Process, Raise(p)
        PROVE  TypeOK'
    BY <2>3, RefuseTypeOK DEF Raise, Causes
  <2>4. ASSUME NEW p \in Process, Stop(p)
        PROVE  TypeOK'
    BY <2>4 DEF Stop, TypeOK, Goto, Stages, Causes, Release, disk
  <2>5. ASSUME NEW row \in Rows, DevpiStores(row)
        PROVE  TypeOK'
    BY <2>5 DEF DevpiStores, TypeOK, memory
  <2>6. CASE UNCHANGED startupVars
    BY <2>6 DEF startupVars, disk, memory, TypeOK
  <2>7. QED
    BY <2>1, <2>2, <2>3, <2>4, <2>5, <2>6 DEF Next
<1>3. QED
  BY <1>1, <1>2, PTL DEF Spec

-----------------------------------------------------------------------------
(* The write lock of the database. *)

\* Who holds the lock is between ReadMarker and InsertMarker, and the other way round.
LockInv == \A p \in Process : pc[p] \in {"inventory", "marking"} <=> lock = p

\* Only activation holds the lock across its steps.
LEMMA NextLockInv == TypeOK /\ LockInv /\ [Next]_startupVars => LockInv'
<1> SUFFICES ASSUME TypeOK, LockInv, [Next]_startupVars
             PROVE  LockInv'
  OBVIOUS
<1> USE StartupAssumption DEF StartupAssumption, TypeOK, LockInv
<1>0. ASSUME NEW p \in Process, NEW cause, Refuse(p, cause)
      PROVE  LockInv'
  BY <1>0 DEF Refuse, Release, Goto
<1>1. ASSUME NEW p \in Process, Start(p)
      PROVE  LockInv'
  BY <1>1 DEF Start, Goto
<1>2. ASSUME NEW p \in Process, Raise(p)
      PROVE  LockInv'
  BY <1>2, <1>0 DEF Raise
<1>3. ASSUME NEW p \in Process, Stop(p)
      PROVE  LockInv'
  BY <1>3 DEF Stop, Release, Goto
<1>4. ASSUME NEW p \in Process, ValidateSettings(p) \/ Migrated(p) \/ VerifyAudit(p)
      PROVE  LockInv'
  BY <1>4 DEF ValidateSettings, Migrated, VerifyAudit, Goto
<1>5. ASSUME NEW p \in Process, ReadVersion(p) \/ CheckCatalog(p)
      PROVE  LockInv'
  BY <1>5, <1>0 DEF ReadVersion, CheckCatalog, Goto
<1>6. ASSUME NEW p \in Process, ApplyMigration(p)
      PROVE  LockInv'
  BY <1>6, <1>0 DEF ApplyMigration, Applied
<1>7. ASSUME NEW p \in Process, RunActions(p) \/ OpenQuarantine(p)
      PROVE  LockInv'
  BY <1>7 DEF RunActions, OpenQuarantine, Goto
<1>8. ASSUME NEW p \in Process, ReadMarker(p)
      PROVE  LockInv'
  BY <1>8, <1>0 DEF ReadMarker, AfterActivation, Goto
<1>9. ASSUME NEW p \in Process, TakeInventory(p)
      PROVE  LockInv'
  BY <1>9, <1>0 DEF TakeInventory, Goto
<1>10. ASSUME NEW p \in Process, InsertMarker(p)
       PROVE  LockInv'
  BY <1>10 DEF InsertMarker, AfterActivation, Goto
<1>11. ASSUME NEW p \in Process, BuildComponents(p) \/ PublishComponents(p)
       PROVE  LockInv'
  BY <1>11 DEF BuildComponents, Build, PublishComponents, Publish, Goto
<1>12. ASSUME NEW row \in Rows, DevpiStores(row)
       PROVE  LockInv'
  BY <1>12 DEF DevpiStores
<1>13. CASE UNCHANGED startupVars
  BY <1>13 DEF startupVars
<1>14. QED
  BY <1>1, <1>2, <1>3, <1>4, <1>5, <1>6, <1>7, <1>8, <1>9, <1>10, <1>11, <1>12, <1>13
     DEF Next, Progress

-----------------------------------------------------------------------------
(* The schema. *)

\* Stages behind the migration.
Behind == {"audit", "configuring", "running"} \cup BuildStages \cup PublishStages

\* A version and its objects commit together; what a process believes is at most what
\* is there, and exactly that unless somebody overtook it.
SchemaInv ==
    /\ version = catalog
    /\ \A p \in Process :
         /\ pc[p] \in {"catalog", "migrating"} =>
              /\ seen[p] <= version /\ version <= Supported
              /\ seen[p] = version \/ overtaken[p]
         /\ pc[p] \in Behind => version = Supported
         /\ refused[p] = "migration" => version > Supported \/ overtaken[p]

\* A version that is applied, and everybody else who is about to is overtaken.
LEMMA AppliedSchemaInv ==
  ASSUME TypeOK, SchemaInv, NEW p \in Process, CanApply(p), catalog = seen[p],
         catalog' = seen[p] + 1, version' = seen[p] + 1, Applied(p)
  PROVE  SchemaInv'
<1>1. /\ pc[p] = "migrating" /\ seen[p] = version /\ version < Supported
      /\ version \in Nat /\ Supported \in Nat
      /\ version' = version + 1 /\ catalog' = version'
  BY StartupAssumption DEF StartupAssumption, CanApply, SchemaInv, TypeOK
<1>2. /\ pc' = pc /\ refused' = refused
      /\ seen' = [seen EXCEPT ![p] = @ + 1] /\ seen \in [Process -> Nat]
  BY DEF Applied, TypeOK
<1>3. ASSUME NEW q \in Process
      PROVE  /\ overtaken[q] => overtaken'[q]
             /\ q # p /\ pc[q] \in {"catalog", "migrating"} => overtaken'[q]
  <2>1. overtaken'[q] = (overtaken[q] \/ (q # p /\ pc[q] \notin {"down", "failed"}))
    BY DEF Applied
  <2>2. QED
    BY <2>1
<1>4. ASSUME NEW q \in Process, pc'[q] \in {"catalog", "migrating"}
      PROVE  /\ seen'[q] <= version' /\ version' <= Supported
             /\ seen'[q] = version' \/ overtaken'[q]
  <2>1. CASE q = p
    <3>1. seen'[q] = version'
      BY <1>1, <1>2, <2>1
    <3>2. QED
      BY <1>1, <3>1
  <2>2. CASE q # p
    <3>1. pc[q] \in {"catalog", "migrating"}
      BY <1>2, <1>4
    <3>2. seen'[q] = seen[q] /\ seen[q] \in Nat
      BY <1>2, <2>2
    <3>3. seen[q] <= version
      BY <3>1 DEF SchemaInv
    <3>4. overtaken'[q]
      BY <1>3, <2>2, <3>1
    <3>5. QED
      BY <1>1, <3>2, <3>3, <3>4
  <2>3. QED
    BY <2>1, <2>2
<1>5. ASSUME NEW q \in Process, refused'[q] = "migration"
      PROVE  version' > Supported \/ overtaken'[q]
  <2>1. version > Supported \/ overtaken[q]
    BY <1>2, <1>5 DEF SchemaInv
  <2>2. ~(version > Supported)
    BY <1>1
  <2>3. QED
    BY <1>3, <2>1, <2>2
<1>6. ASSUME NEW q \in Process
      PROVE  pc'[q] \notin Behind
  <2>1. pc[q] \in Behind => version = Supported
    BY DEF SchemaInv
  <2>2. QED
    BY <1>1, <1>2, <2>1
<1>7. QED
  BY <1>1, <1>4, <1>5, <1>6 DEF SchemaInv

\* No interleaving of migrations loses a version or lets a process take an older
\* schema for the supported one.
LEMMA NextSchemaInv == TypeOK /\ SchemaInv /\ [Next]_startupVars => SchemaInv'
<1> SUFFICES ASSUME TypeOK, SchemaInv, [Next]_startupVars
             PROVE  SchemaInv'
  OBVIOUS
<1> USE StartupAssumption
    DEF StartupAssumption, TypeOK, SchemaInv, Behind, BuildStages, PublishStages
<1>0. ASSUME NEW p \in Process, NEW cause, Refuse(p, cause),
             cause = "migration" => version > Supported \/ overtaken[p]
      PROVE  SchemaInv'
  BY <1>0 DEF Refuse, Goto, disk
<1>1. ASSUME NEW p \in Process, Start(p)
      PROVE  SchemaInv'
  BY <1>1 DEF Start, Goto, disk, memory
<1>2. ASSUME NEW p \in Process, Raise(p)
      PROVE  SchemaInv'
  BY <1>2, <1>0 DEF Raise
<1>3. ASSUME NEW p \in Process, Stop(p)
      PROVE  SchemaInv'
  BY <1>3 DEF Stop, Goto, disk
<1>4. ASSUME NEW p \in Process, ValidateSettings(p) \/ Migrated(p) \/ VerifyAudit(p)
      PROVE  SchemaInv'
  BY <1>4 DEF ValidateSettings, Migrated, VerifyAudit, Goto, disk, memory
<1>5. ASSUME NEW p \in Process, ReadVersion(p) \/ CheckCatalog(p)
      PROVE  SchemaInv'
  BY <1>5, <1>0 DEF ReadVersion, CheckCatalog, Goto, disk, memory
<1>6. ASSUME NEW p \in Process, ApplyMigration(p)
      PROVE  SchemaInv'
  <2>1. CASE Refuse(p, "migration") /\ catalog # seen[p]
    BY <1>6, <2>1, <1>0 DEF ApplyMigration, CanApply
  <2>2. CASE catalog = seen[p] /\ catalog' = seen[p] + 1 /\ version' = seen[p] + 1
             /\ Applied(p)
    BY <1>6, <2>2, AppliedSchemaInv DEF ApplyMigration
  <2>3. QED
    BY <1>6, <2>1, <2>2 DEF ApplyMigration
<1>7. ASSUME NEW p \in Process, RunActions(p) \/ OpenQuarantine(p)
      PROVE  SchemaInv'
  BY <1>7 DEF RunActions, OpenQuarantine, Goto, disk
<1>8. ASSUME NEW p \in Process, ReadMarker(p)
      PROVE  SchemaInv'
  BY <1>8, <1>0 DEF ReadMarker, AfterActivation, Goto, disk, memory
<1>9. ASSUME NEW p \in Process, TakeInventory(p)
      PROVE  SchemaInv'
  BY <1>9, <1>0 DEF TakeInventory, Goto, disk
<1>10. ASSUME NEW p \in Process, InsertMarker(p)
       PROVE  SchemaInv'
  BY <1>10 DEF InsertMarker, AfterActivation, Goto, memory
<1>11. ASSUME NEW p \in Process, BuildComponents(p) \/ PublishComponents(p)
       PROVE  SchemaInv'
  BY <1>11 DEF BuildComponents, Build, PublishComponents, Publish, Goto, disk
<1>12. ASSUME NEW row \in Rows, DevpiStores(row)
       PROVE  SchemaInv'
  BY <1>12 DEF DevpiStores, memory
<1>13. CASE UNCHANGED startupVars
  BY <1>13 DEF startupVars, disk, memory
<1>14. QED
  BY <1>1, <1>2, <1>3, <1>4, <1>5, <1>6, <1>7, <1>8, <1>9, <1>10, <1>11, <1>12, <1>13
     DEF Next, Progress

\* No start is refused by migrate but for a newer release or a concurrent migration,
\* whatever crashes left.
THEOREM RefusalHasCause == Spec => []RefusedForCause
<1>1. Init => SchemaInv
  BY StartupAssumption
     DEF StartupAssumption, Init, SchemaInv, Behind, BuildStages, PublishStages
<1>2. SchemaInv => RefusedForCause
  BY DEF SchemaInv, RefusedForCause
<1>3. QED
  BY <1>1, <1>2, TypeCorrect, NextSchemaInv, PTL DEF Spec

-----------------------------------------------------------------------------
(* The marker of activation. *)

\* Stages behind the activation.
Activated ==
    {"directories", "queue", "session", "worker", "providers", "running"}
    \cup PublishStages

\* Whoever is between the inventory and the insertion has seen no marker and has the
\* lock; whoever is behind the activation has the marker of its own devpi server.
MarkerInv ==
    /\ marker = None => durable = {}
    /\ marker # None => markedEmpty = TRUE
    /\ \A p \in Process :
         /\ pc[p] \in {"inventory", "marking"} => marker = None
         /\ pc[p] = "marking" => seenEmpty[p] = TRUE
         /\ pc[p] \in Activated => marker = UuidOf(p)

\* An inventory without a candidate has found no release and no other file.
LEMMA NoCandidate ==
  ASSUME NEW rows, FindCandidate(rows) = "none"
  PROVE  ~HoldsArtifact(rows)
  BY DEF FindCandidate, HoldsArtifact

\* The marker is set once, under the lock, and never changes afterwards.
LEMMA NextMarkerInv == TypeOK /\ LockInv /\ MarkerInv /\ [Next]_startupVars => MarkerInv'
<1> SUFFICES ASSUME TypeOK, LockInv, MarkerInv, [Next]_startupVars
             PROVE  MarkerInv'
  OBVIOUS
<1> USE StartupAssumption
    DEF StartupAssumption, TypeOK, MarkerInv, Activated, PublishStages
<1>0. ASSUME NEW p \in Process, NEW cause, Refuse(p, cause)
      PROVE  MarkerInv'
  BY <1>0 DEF Refuse, Release, Goto, disk
<1>a. ASSUME NEW p \in Process, NEW stage, Goto(p, stage),
              stage \notin {"inventory", "marking"} \cup Activated,
              UNCHANGED <<marker, durable, markedEmpty, seenEmpty>>
       PROVE  MarkerInv'
  BY <1>a DEF Goto
<1>1. ASSUME NEW p \in Process, Start(p)
      PROVE  MarkerInv'
  BY <1>1 DEF Start, Goto, disk, memory
<1>2. ASSUME NEW p \in Process, Raise(p)
      PROVE  MarkerInv'
  BY <1>2, <1>0 DEF Raise
<1>3. ASSUME NEW p \in Process, Stop(p)
      PROVE  MarkerInv'
  BY <1>3 DEF Stop, Release, Goto, disk
<1>4. ASSUME NEW p \in Process, ValidateSettings(p) \/ Migrated(p) \/ VerifyAudit(p)
      PROVE  MarkerInv'
  BY <1>4, <1>a DEF ValidateSettings, Migrated, VerifyAudit, disk, memory
<1>5. ASSUME NEW p \in Process, ReadVersion(p) \/ CheckCatalog(p)
      PROVE  MarkerInv'
  <2>1. CASE Refuse(p, "migration")
    BY <1>0, <2>1
  <2>2. CASE /\ \/ Goto(p, IF version = 0 THEN "migrating" ELSE "catalog")
                \/ Goto(p, "migrating")
             /\ UNCHANGED <<marker, durable, markedEmpty, seenEmpty>>
    BY <1>a, <2>2
  <2>3. QED
    BY <1>5, <2>1, <2>2 DEF ReadVersion, CheckCatalog, disk, memory
<1>6. ASSUME NEW p \in Process, ApplyMigration(p)
      PROVE  MarkerInv'
  BY <1>6, <1>0 DEF ApplyMigration, Applied
<1>7. ASSUME NEW p \in Process, RunActions(p) \/ OpenQuarantine(p)
      PROVE  MarkerInv'
  BY <1>7, <1>a DEF RunActions, OpenQuarantine, disk
<1>8. ASSUME NEW p \in Process, ReadMarker(p)
      PROVE  MarkerInv'
  BY <1>8, <1>0 DEF ReadMarker, AfterActivation, Goto, disk, memory
<1>9. ASSUME NEW p \in Process, TakeInventory(p)
      PROVE  MarkerInv'
  <2>1. CASE Refuse(p, "activation")
    BY <1>0, <2>1
  <2>2. CASE /\ FindCandidate(devpi) = "none"
             /\ seenEmpty' = [seenEmpty EXCEPT ![p] = ~HoldsArtifact(devpi)]
             /\ pc' = [pc EXCEPT ![p] = "marking"]
             /\ UNCHANGED <<marker, durable, markedEmpty>>
    <3>1. seenEmpty'[p]
      BY <2>2, NoCandidate
    <3>2. pc[p] = "inventory"
      BY <1>9 DEF TakeInventory
    <3>3. QED
      BY <2>2, <3>1, <3>2
  <2>3. QED
    BY <1>9, <2>1, <2>2 DEF TakeInventory, Goto, disk
<1>10. ASSUME NEW p \in Process, InsertMarker(p)
       PROVE  MarkerInv'
  <2>1. pc[p] = "marking" /\ lock = p /\ seenEmpty[p]
    BY <1>10 DEF InsertMarker, LockInv
  <2>2. \A q \in Process : q # p => pc[q] \notin {"inventory", "marking"} \cup Activated
    BY <2>1 DEF LockInv
  <2>3. markedEmpty'
    BY <1>10, <2>1 DEF InsertMarker
  <2>4. QED
    BY <1>10, <2>1, <2>2, <2>3 DEF InsertMarker, AfterActivation, Goto, memory
<1>11. ASSUME NEW p \in Process, BuildComponents(p)
       PROVE  MarkerInv'
  BY <1>11 DEF BuildComponents, Build, Goto
<1>12. ASSUME NEW p \in Process, PublishComponents(p)
       PROVE  MarkerInv'
  BY <1>12 DEF PublishComponents, Publish, Goto, disk
<1>13. ASSUME NEW row \in Rows, DevpiStores(row)
       PROVE  MarkerInv'
  BY <1>13 DEF DevpiStores, memory
<1>14. CASE UNCHANGED startupVars
  BY <1>14 DEF startupVars, disk, memory
<1>15. QED
  BY <1>1, <1>2, <1>3, <1>4, <1>5, <1>6, <1>7, <1>8, <1>9, <1>10, <1>11, <1>12, <1>13, <1>14
     DEF Next, Progress

\* The marker is set only by a process that saw a devpi without artifacts.
THEOREM ActivationIsClean == Spec => []MarkedWhenEmpty
<1>1. Init => LockInv /\ MarkerInv
  BY StartupAssumption
     DEF StartupAssumption, Init, LockInv, MarkerInv, Activated, PublishStages
<1>2. MarkerInv => MarkedWhenEmpty
  BY DEF MarkerInv, MarkedWhenEmpty
<1>3. QED
  BY <1>1, <1>2, TypeCorrect, NextLockInv, NextMarkerInv, PTL DEF Spec

-----------------------------------------------------------------------------
(* What a process shows and holds. *)

\* Nothing is held or shown before the last action, attributes only while the worker
\* is being registered, and the worker only when nothing can fail any more.
ShownInv ==
    \A p \in Process :
        /\ pc[p] \in {"down", "settings", "version", "catalog", "migrating", "audit",
                      "configuring", "failed"} => published[p] = {} /\ open[p] = {}
        /\ published[p] \cap Attributes # {} => pc[p] \in {"registering", "running"}
        /\ "worker" \in published[p] => pc[p] = "running"

\* Every failure takes back what was shown and closes what was opened.
LEMMA NextShownInv == TypeOK /\ ShownInv /\ [Next]_startupVars => ShownInv'
<1> SUFFICES ASSUME TypeOK, ShownInv, [Next]_startupVars
             PROVE  ShownInv'
  OBVIOUS
<1> USE StartupAssumption
    DEF StartupAssumption, TypeOK, ShownInv, Attributes, Resources
<1>0. ASSUME NEW p \in Process, NEW cause, Refuse(p, cause), pc[p] # "running"
      PROVE  ShownInv'
  <2>1. open'[p] = {}
    BY <1>0 DEF Refuse, ClosedOnFailure, BuildStages, PublishStages, Stages
  <2>2. published'[p] = {}
    BY <1>0 DEF Refuse, RestoredOnFailure, PublishStages
  <2>3. QED
    BY <1>0, <2>1, <2>2 DEF Refuse, Goto
<1>1. ASSUME NEW p \in Process, Start(p)
      PROVE  ShownInv'
  BY <1>1 DEF Start, Goto, disk, memory
<1>2. ASSUME NEW p \in Process, Raise(p)
      PROVE  ShownInv'
  BY <1>2, <1>0 DEF Raise
<1>3. ASSUME NEW p \in Process, Stop(p)
      PROVE  ShownInv'
  BY <1>3 DEF Stop, Release, Goto, disk
<1>4. ASSUME NEW p \in Process, ValidateSettings(p) \/ Migrated(p) \/ VerifyAudit(p)
      PROVE  ShownInv'
  BY <1>4 DEF ValidateSettings, Migrated, VerifyAudit, Goto, disk, memory
<1>5. ASSUME NEW p \in Process, ReadVersion(p) \/ CheckCatalog(p)
      PROVE  ShownInv'
  BY <1>5, <1>0 DEF ReadVersion, CheckCatalog, Goto, disk, memory
<1>6. ASSUME NEW p \in Process, ApplyMigration(p)
      PROVE  ShownInv'
  BY <1>6, <1>0 DEF ApplyMigration, Applied, CanApply
<1>7. ASSUME NEW p \in Process, RunActions(p) \/ OpenQuarantine(p)
      PROVE  ShownInv'
  BY <1>7 DEF RunActions, OpenQuarantine, Goto, disk
<1>8. ASSUME NEW p \in Process, ReadMarker(p)
      PROVE  ShownInv'
  BY <1>8, <1>0 DEF ReadMarker, AfterActivation, Goto, disk, memory
<1>9. ASSUME NEW p \in Process, TakeInventory(p)
      PROVE  ShownInv'
  BY <1>9, <1>0 DEF TakeInventory, Goto, disk
<1>10. ASSUME NEW p \in Process, InsertMarker(p)
       PROVE  ShownInv'
  BY <1>10 DEF InsertMarker, AfterActivation, Goto, memory
<1>11. ASSUME NEW p \in Process, BuildComponents(p)
       PROVE  ShownInv'
  BY <1>11 DEF BuildComponents, Build, Goto
<1>12. ASSUME NEW p \in Process, PublishComponents(p)
       PROVE  ShownInv'
  BY <1>12 DEF PublishComponents, Publish, Goto, disk
<1>13. ASSUME NEW row \in Rows, DevpiStores(row)
       PROVE  ShownInv'
  BY <1>13 DEF DevpiStores, memory
<1>14. CASE UNCHANGED startupVars
  BY <1>14 DEF startupVars, disk, memory
<1>15. QED
  BY <1>1, <1>2, <1>3, <1>4, <1>5, <1>6, <1>7, <1>8, <1>9, <1>10, <1>11, <1>12, <1>13, <1>14
     DEF Next, Progress

\* A failed start leaves nothing behind, wherever it failed.
THEOREM FailureIsClean == Spec => []FailedStartLeavesNothing
<1>1. Init => LockInv /\ ShownInv
  BY StartupAssumption DEF StartupAssumption, Init, LockInv, ShownInv
<1>2. LockInv /\ ShownInv => FailedStartLeavesNothing
  BY DEF LockInv, ShownInv, FailedStartLeavesNothing
<1>3. QED
  BY <1>1, <1>2, TypeCorrect, NextLockInv, NextShownInv, PTL DEF Spec

\* Nothing is shown, and no directory exists, before the activation, whatever processes
\* crash or race.
THEOREM ActivatedBeforePublication == Spec => []PublishedIsActivated
<1>1. Init => LockInv /\ SchemaInv /\ MarkerInv /\ ShownInv
  BY StartupAssumption
     DEF StartupAssumption, Init, LockInv, SchemaInv, Behind, MarkerInv, Activated,
         BuildStages, PublishStages, ShownInv
<1>2. TypeOK /\ SchemaInv /\ MarkerInv /\ ShownInv => PublishedIsActivated
  <2> SUFFICES ASSUME TypeOK, SchemaInv, MarkerInv, ShownInv
               PROVE  PublishedIsActivated
    OBVIOUS
  <2>1. ASSUME NEW p \in Process, published[p] \ {"routes"} # {}
        PROVE  pc[p] \in {"registering", "running"}
    BY <2>1 DEF TypeOK, ShownInv
  <2>2. QED
    BY <2>1 DEF PublishedIsActivated, MarkerInv, SchemaInv, Activated, Behind,
                PublishStages
<1>3. QED
  BY <1>1, <1>2, TypeCorrect, NextLockInv, NextSchemaInv, NextMarkerInv, NextShownInv,
     PTL DEF Spec

===============================================================================
