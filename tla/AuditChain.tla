----------------------------- MODULE AuditChain -----------------------------
(***************************************************************************)
(* The hash chained table audit_events: SQLiteAuditWriter with its cache   *)
(* of the prefix it has verified (audit/writer.py), the verifier           *)
(* (audit/verifier.py), and a stranger who drops the triggers of           *)
(* 005_audit_events.sql, changes rows and puts the triggers back.          *)
(*                                                                         *)
(* A digest is abstracted to what it commits to: the sequence of the       *)
(* numbered events up to its row, so that equal digests mean equal         *)
(* histories (SHA-256 has no collisions).  A writer belongs to a process;  *)
(* SQLiteArtifactStore uses every connection for one transaction, but the  *)
(* writer takes any connection, also one it has seen before.               *)
(***************************************************************************)
EXTENDS Naturals, SequencesExt

CONSTANTS
    Events,       \* what a valid event says
    Malformed,    \* a content that no valid event has
    Writers,      \* processes, each with one SQLiteAuditWriter
    Connections,
    Nobody,       \* no writer, no connection
    MaxRows,      \* bound of the table
    MaxTampering  \* bound of the changes by strangers

ASSUME ChainAssumption ==
    /\ Malformed \notin Events
    /\ Nobody \notin Writers \cup Connections
    /\ MaxRows \in Nat /\ MaxTampering \in Nat

VARIABLES
    rows,         \* the committed rows, in the order of their ids
    schema,       \* PRAGMA schema_version: grows with each change of a trigger
    writer,       \* the writer whose transaction is open, if any
    connection,   \* the connection of that transaction
    work,         \* the rows that this transaction sees
    cache,        \* the verified prefix that each writer remembers
    up,           \* the processes that have started
    noted         \* history: the rows of the last valid verification

transaction == <<writer, connection, work>>
vars == <<rows, schema, transaction, cache, up, noted>>

Contents == Events \cup {Malformed}
Digests == Seq(Nat \X Contents)
Row == [id : Nat, event : Contents, previous : Digests, hash : Digests]
Prefix == [connection : Connections \cup {Nobody}, schema : Nat, count : Nat,
           head : Digests]

ZeroHash == <<>>
EventHash(previous, id, event) == Append(previous, <<id, event>>)

NoPrefix == [connection |-> Nobody, schema |-> 0, count |-> 0, head |-> ZeroHash]

-----------------------------------------------------------------------------
(* The checks of one row and of the rows after a verified prefix.          *)

\* Faulty variant: the link to the row before is not compared.
FollowsUnlinked(rs, k, head) ==
    /\ rs[k].id = k
    /\ rs[k].event \in Events
    /\ rs[k].hash = EventHash(rs[k].previous, k, rs[k].event)

\* Row k is the valid k-th event after a row with this hash.
Follows(rs, k, head) ==
    /\ rs[k].id = k
    /\ rs[k].event \in Events
    /\ rs[k].previous = head
    /\ rs[k].hash = EventHash(head, k, rs[k].event)

HashAt(rs, k) == IF k = 0 THEN ZeroHash ELSE rs[k].hash
HeadOf(rs) == HashAt(rs, Len(rs))

\* Every row after the first "count" ones follows the row before it.
VerifiedAfter(rs, count, head) ==
    \A k \in count + 1 .. Len(rs) :
        Follows(rs, k, IF k = count + 1 THEN head ELSE HashAt(rs, k - 1))

\* verify_audit_chain without an expected head.
Valid(rs) == VerifiedAfter(rs, 0, ZeroHash)

\* verify_audit_chain with the head that an earlier verification returned.
ValidUpTo(rs, expected) == Valid(rs) /\ rs # <<>> /\ HeadOf(rs) = expected

-----------------------------------------------------------------------------
Init ==
    /\ rows = <<>> /\ schema = 1
    /\ writer = Nobody /\ connection = Nobody /\ work = <<>>
    /\ cache = [w \in Writers |-> NoPrefix]
    /\ up = {} /\ noted = <<>>

\* devpiserver_pyramid_configure: no start on a chain that does not verify.
Start(w) ==
    /\ w \notin up /\ Valid(rows)
    /\ up' = up \cup {w}
    /\ cache' = [cache EXCEPT ![w] = NoPrefix]
    /\ UNCHANGED <<rows, schema, transaction, noted>>

\* Faulty variant: the connection is not closed.
ConnectionLeft == writer' = Nobody /\ work' = <<>> /\ UNCHANGED connection

NoTransaction == writer' = Nobody /\ connection' = Nobody /\ work' = <<>>

Stop(w) ==
    /\ w \in up
    /\ up' = up \ {w}
    /\ IF writer = w THEN NoTransaction ELSE UNCHANGED transaction
    /\ UNCHANGED <<rows, schema, cache, noted>>

\* BEGIN IMMEDIATE
Begin(w) ==
    /\ w \in up /\ writer = Nobody
    /\ writer' = w /\ connection' \in Connections /\ work' = rows
    /\ UNCHANGED <<rows, schema, cache, up, noted>>

\* Faulty variant: the cache is kept when the triggers were changed.
UsableAcrossSchemas(w) ==
    /\ cache[w].connection = connection
    /\ Len(work) >= cache[w].count
    /\ cache[w].count > 0 =>
         \E k \in 1 .. Len(work) :
             work[k].id = cache[w].count /\ work[k].hash = cache[w].head

\* Faulty variant: the rows are not compared with the cache, only counted.
UsableWithoutTail(w) ==
    /\ cache[w].connection = connection
    /\ cache[w].schema = schema
    /\ Len(work) >= cache[w].count

\* The cached prefix may be used: the same connection, triggers that were not
\* touched, and a row with its number and its hash.
Usable(w) ==
    /\ cache[w].connection = connection
    /\ cache[w].schema = schema
    /\ Len(work) >= cache[w].count
    /\ cache[w].count > 0 =>
         \E k \in 1 .. Len(work) :
             work[k].id = cache[w].count /\ work[k].hash = cache[w].head

\* _verified_prefix: the rows behind the cached prefix, or else all rows.
Accepts(w) ==
    IF Usable(w) THEN VerifiedAfter(work, cache[w].count, cache[w].head)
    ELSE Valid(work)

Remember(w) ==
    cache' = [cache EXCEPT ![w] =
        [connection |-> connection, schema |-> schema, count |-> Len(work),
         head |-> HeadOf(work)]]

\* The row that the insert triggers ask for: the next id, linked to the last row.
NewRow(event) ==
    [id |-> Len(work) + 1, event |-> event, previous |-> HeadOf(work),
     hash |-> EventHash(HeadOf(work), Len(work) + 1, event)]

AppendEvent(w) ==
    /\ writer = w /\ Len(work) < MaxRows
    /\ Accepts(w)
    /\ Remember(w)
    /\ \E event \in Events : work' = Append(work, NewRow(event))
    /\ UNCHANGED <<rows, schema, writer, connection, up, noted>>

\* StoreUnavailable ends the operation of the store, and with it the transaction.
RefuseEvent(w) ==
    /\ writer = w
    /\ ~Accepts(w)
    /\ NoTransaction
    /\ UNCHANGED <<rows, schema, cache, up, noted>>

Commit(w) ==
    /\ writer = w
    /\ rows' = work
    /\ NoTransaction
    /\ UNCHANGED <<schema, cache, up, noted>>

Rollback(w) ==
    /\ writer = w
    /\ NoTransaction
    /\ UNCHANGED <<rows, schema, cache, up, noted>>

\* The health report returns the head of a valid chain.
Verify ==
    /\ Valid(rows)
    /\ noted' = rows
    /\ UNCHANGED <<rows, schema, transaction, cache, up>>

\* A row with another content, a hash or a link computed anew, a row removed.
Tamperings ==
    {[rows EXCEPT ![k].event = e] : k \in DOMAIN rows, e \in Contents}
    \cup {[rows EXCEPT ![k].hash = EventHash(rows[k].previous, k, rows[k].event)] :
            k \in DOMAIN rows}
    \cup {[rows EXCEPT ![k].previous = HashAt(rows, k - 1)] : k \in DOMAIN rows}
    \cup {RemoveAt(rows, k) : k \in DOMAIN rows}

Tamper ==
    /\ writer = Nobody /\ schema <= MaxTampering
    /\ rows' \in Tamperings \ {rows}
    /\ schema' = schema + 1
    /\ UNCHANGED <<transaction, cache, up, noted>>

Next ==
    \/ \E w \in Writers :
         \/ Start(w) \/ Stop(w)
         \/ Begin(w) \/ AppendEvent(w) \/ RefuseEvent(w) \/ Commit(w) \/ Rollback(w)
    \/ Verify
    \/ Tamper

Spec == Init /\ [][Next]_vars

-----------------------------------------------------------------------------
TypeOK ==
    /\ rows \in Seq(Row) /\ work \in Seq(Row) /\ noted \in Seq(Row)
    /\ schema \in Nat
    /\ writer \in Writers \cup {Nobody}
    /\ connection \in Connections \cup {Nobody}
    /\ writer = Nobody <=> connection = Nobody
    /\ cache \in [Writers -> Prefix]
    /\ up \subseteq Writers
    /\ writer # Nobody => writer \in up

\* The shortcut through the cached prefix decides like a scan of the whole table,
\* whatever was rolled back, committed by others or tampered with in the meantime:
\* no event is appended to a damaged chain, and none is refused by a sound one.
CacheDecidesLikeScan ==
    \A w \in Writers : writer = w => (Accepts(w) <=> Valid(work))

\* No transaction of the program commits events on top of rows that do not verify.
CommitsVerify == [][writer # Nobody /\ rows' # rows => Valid(rows')]_vars

\* A verification with the head of an earlier one is valid only if not a single row
\* was added, changed or lost in between.
TamperingShows == noted # <<>> /\ ValidUpTo(rows, HeadOf(noted)) => rows = noted
=============================================================================
