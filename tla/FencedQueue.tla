----------------------------- MODULE FencedQueue -----------------------------
(***************************************************************************)
(* What both durable work tables of devpi-guardian promise their workers,  *)
(* without saying how: an item is leased to one holder at a time, a lease  *)
(* may be taken away, and only the newest lease of an item settles it.     *)
(* The artifact table (VerdictStore) and the discovery job table           *)
(* (DiscoveryQueue) are each shown to implement this specification.        *)
(***************************************************************************)
EXTENDS Naturals

CONSTANTS
    Item,
    Losable   \* the items that may be given up without a result

VARIABLES
    phase,    \* [Item -> Phase]
    holder,   \* [Item -> Nat]  token of the lease in force, 0 when there is none
    settler,  \* [Item -> Nat]  token of the lease that settled the item, 0 before
    issued    \* number of leases granted so far; lease n carries token n

qvars == <<phase, holder, settler, issued>>

Phase == {"absent", "queued", "leased", "settled"}

QInit ==
    /\ phase = [i \in Item |-> "absent"]
    /\ holder = [i \in Item |-> 0]
    /\ settler = [i \in Item |-> 0]
    /\ issued = 0

\* New items enter the queue together.
Add(S) ==
    /\ S # {}
    /\ \A i \in S : phase[i] = "absent"
    /\ phase' = [i \in Item |-> IF i \in S THEN "queued" ELSE phase[i]]
    /\ UNCHANGED <<holder, settler, issued>>

\* A lease is granted on a queued item only, with a token never seen before.  The
\* items of "lost" are given up on the way.
Lease(i, lost) ==
    /\ phase[i] = "queued"
    /\ \A j \in lost : j # i /\ phase[j] = "queued"
    /\ phase' = [j \in Item |-> IF j = i THEN "leased"
                               ELSE IF j \in lost THEN "settled" ELSE phase[j]]
    /\ holder' = [holder EXCEPT ![i] = issued + 1]
    /\ issued' = issued + 1
    /\ UNCHANGED settler

\* Leases end without a result, by expiry or because the holder gives up; again the
\* items of "lost" never get one.
Requeue(S, lost) ==
    /\ S \cup lost # {}
    /\ \A i \in S : i \notin lost /\ phase[i] = "leased"
    /\ \A i \in lost : phase[i] \in {"queued", "leased"}
    /\ phase' = [i \in Item |-> IF i \in S THEN "queued"
                               ELSE IF i \in lost THEN "settled" ELSE phase[i]]
    /\ holder' = [i \in Item |-> IF i \in S \cup lost THEN 0 ELSE holder[i]]
    /\ UNCHANGED <<settler, issued>>

\* The holder of the lease in force settles the item, once.
Settle(i) ==
    /\ phase[i] = "leased"
    /\ phase' = [phase EXCEPT ![i] = "settled"]
    /\ settler' = [settler EXCEPT ![i] = holder[i]]
    /\ holder' = [holder EXCEPT ![i] = 0]
    /\ UNCHANGED issued

\* An operator sends a settled item back to the queue.
Reopen(i) ==
    /\ phase[i] = "settled"
    /\ phase' = [phase EXCEPT ![i] = "queued"]
    /\ UNCHANGED <<holder, settler, issued>>

QNext ==
    \/ \E i \in Item : Settle(i) \/ Reopen(i)
    \/ \E i \in Item, lost \in SUBSET Losable : Lease(i, lost)
    \/ \E S \in SUBSET Item : Add(S)
    \/ \E S \in SUBSET Item, lost \in SUBSET Losable : Requeue(S, lost)

QSpec == QInit /\ [][QNext]_qvars

==============================================================================
