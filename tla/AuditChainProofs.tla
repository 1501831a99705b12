-------------------------- MODULE AuditChainProofs --------------------------
(***************************************************************************)
(* Proofs about AuditChain, for any events, writers, connections, bounds   *)
(* and any number of rows.                                                 *)
(***************************************************************************)
EXTENDS AuditChain, WellFoundedInduction, SequenceTheorems, TLAPS

CacheIsOlder ==
    /\ schema > 0
    /\ \A w \in Writers :
         /\ cache[w].schema <= schema
         /\ cache[w].count = 0 => cache[w].head = ZeroHash

\* Under the present triggers a writer has verified what there is.
CacheIsSound ==
    \A w \in Writers : cache[w].schema = schema =>
        Valid(rows) /\ (writer # Nobody => Valid(work))

WorkIsSound ==
    writer # Nobody => work = rows \/ (Valid(rows) /\ Valid(work))

IInv == TypeOK /\ CacheIsOlder /\ CacheIsSound /\ WorkIsSound /\ Valid(noted)

-----------------------------------------------------------------------------
(* Digests and chains.                                                     *)

\* A digest determines what was hashed and is not the digest before the first row.
LEMMA HashProperties ==
    ASSUME NEW p \in Digests, NEW i \in Nat, NEW e \in Contents
    PROVE  /\ EventHash(p, i, e) \in Digests
           /\ EventHash(p, i, e) # ZeroHash
           /\ \A q \in Digests, j \in Nat, f \in Contents :
                EventHash(q, j, f) = EventHash(p, i, e) => q = p /\ j = i /\ f = e
<1> DEFINE S == Nat \X Contents
<1>1. <<i, e>> \in S
  OBVIOUS
<1>2. EventHash(p, i, e) \in Digests /\ Len(EventHash(p, i, e)) = Len(p) + 1
  BY <1>1 DEF EventHash, Digests
<1>3. EventHash(p, i, e) # ZeroHash
  BY <1>2 DEF ZeroHash, Digests
<1>4. ASSUME NEW q \in Digests, NEW j \in Nat, NEW f \in Contents,
             EventHash(q, j, f) = EventHash(p, i, e)
      PROVE  q = p /\ j = i /\ f = e
  <2> HIDE DEF S
  <2>1. <<j, f>> \in S
    BY DEF S
  <2>2. Append(q, <<j, f>>) = Append(p, <<i, e>>) /\ q \in Seq(S) /\ p \in Seq(S)
    BY <1>4 DEF EventHash, Digests, S
  <2>3. Len(q) = Len(p)
    <3>1. Len(Append(q, <<j, f>>)) = Len(q) + 1 /\ Len(Append(p, <<i, e>>)) = Len(p) + 1
      BY <1>1, <2>1, <2>2 DEF S
    <3> QED BY <2>2, <3>1
  <2>4. \A k \in 1 .. Len(q) : q[k] = p[k]
    <3>1. \A k \in 1 .. Len(q) : /\ Append(q, <<j, f>>)[k] = q[k]
                                 /\ Append(p, <<i, e>>)[k] = p[k]
      BY <2>1, <2>2, <2>3, <1>1 DEF S
    <3> QED BY <2>2, <3>1
  <2>5. q = p
    BY <2>2, <2>3, <2>4, SeqEqual
  <2>6. <<j, f>> = <<i, e>>
    <3>1. /\ Append(q, <<j, f>>)[Len(q) + 1] = <<j, f>>
          /\ Append(p, <<i, e>>)[Len(p) + 1] = <<i, e>>
      BY <2>1, <2>2, <1>1 DEF S
    <3> QED BY <2>2, <2>3, <3>1
  <2> QED BY <2>5, <2>6
<1> QED BY <1>2, <1>3, <1>4

\* What validity says of a table, row by row.
LEMMA ValidMeans ==
    ASSUME NEW rs
    PROVE  Valid(rs) <=> \A k \in 1 .. Len(rs) : Follows(rs, k, HashAt(rs, k - 1))
  BY DEF Valid, VerifiedAfter, HashAt

\* A nonempty set of numbers has a least member.
LEMMA LeastNumber ==
    ASSUME NEW T \in SUBSET Nat, T # {}
    PROVE  \E x \in T : \A y \in T : ~(y < x)
<1> DEFINE R == {pair \in Nat \X Nat : pair[1] < pair[2]}
<1>1. IsWellFoundedOn(R, Nat)
  BY NatLessThanWellFounded DEF OpToRel
<1>2. \E x \in T : \A y \in T : ~(<<y, x>> \in R)
  <2> HIDE DEF R
  <2> QED BY <1>1, WFMin
<1> QED BY <1>2

\* A valid row is determined by its hash.
LEMMA HashDeterminesRow ==
    ASSUME NEW rs \in Seq(Row), NEW qs \in Seq(Row), NEW k \in Nat, NEW j \in Nat,
           k \in 1 .. Len(rs), j \in 1 .. Len(qs),
           Valid(rs), Valid(qs), rs[k].hash = qs[j].hash
    PROVE  k = j /\ rs[k] = qs[j]
<1>1. rs[k] \in Row /\ qs[j] \in Row
  OBVIOUS
<1>2. Follows(rs, k, HashAt(rs, k - 1)) /\ Follows(qs, j, HashAt(qs, j - 1))
  BY ValidMeans
<1>3. /\ rs[k].hash = EventHash(rs[k].previous, k, rs[k].event) /\ rs[k].id = k
      /\ qs[j].hash = EventHash(qs[j].previous, j, qs[j].event) /\ qs[j].id = j
  BY <1>2 DEF Follows
<1>4. /\ rs[k].previous \in Digests /\ rs[k].event \in Contents
      /\ qs[j].previous \in Digests /\ qs[j].event \in Contents
  BY <1>1 DEF Row
<1>5. qs[j].previous = rs[k].previous /\ j = k /\ qs[j].event = rs[k].event
  <2>1. ASSUME NEW p \in Digests, NEW e \in Contents, NEW q \in Digests,
               NEW f \in Contents, EventHash(q, j, f) = EventHash(p, k, e)
        PROVE  q = p /\ j = k /\ f = e
    BY <2>1, HashProperties
  <2>2. EventHash(qs[j].previous, j, qs[j].event) = EventHash(rs[k].previous, k, rs[k].event)
    BY <1>3
  <2> QED BY <1>4, <2>1, <2>2
<1>6. rs[k] = qs[j]
  BY <1>1, <1>3, <1>5 DEF Row
<1> QED BY <1>5, <1>6

\* Valid chains with one head are equal: the first difference, counted from the end,
\* is impossible.
LEMMA HeadDeterminesChain ==
    ASSUME NEW rs \in Seq(Row), NEW qs \in Seq(Row),
           rs # <<>>, qs # <<>>, Valid(rs), Valid(qs), HeadOf(rs) = HeadOf(qs)
    PROVE  rs = qs
<1> DEFINE n == Len(rs)
<1>1. n \in Nat /\ n > 0 /\ Len(qs) \in Nat /\ Len(qs) > 0
  BY EmptySeq, LenProperties
<1>2. rs[n].hash = qs[Len(qs)].hash
  BY <1>1 DEF HeadOf, HashAt
<1>3. n = Len(qs) /\ rs[n] = qs[n]
  BY <1>1, <1>2, HashDeterminesRow
<1> DEFINE T == {d \in Nat : d < n /\ rs[n - d] # qs[n - d]}
<1>4. ASSUME T # {} PROVE FALSE
  <2>1. PICK d \in T : \A y \in T : ~(y < d)
    BY <1>4, LeastNumber
  <2>2. d # 0
    BY <1>3, <2>1, <1>1
  <2>3. d \in Nat /\ d < n /\ d - 1 \in Nat /\ d - 1 \notin T
    BY <2>1, <2>2
  <2> DEFINE k == n - d
  <2>4. k \in 1 .. n - 1 /\ k + 1 = n - (d - 1) /\ k \in Nat
    BY <2>3, <1>1
  <2>5. rs[k + 1] = qs[k + 1]
    BY <2>3, <2>4
  <2>6. Follows(rs, k + 1, HashAt(rs, k)) /\ Follows(qs, k + 1, HashAt(qs, k))
    <3>1. k + 1 \in 1 .. Len(rs) /\ k + 1 \in 1 .. Len(qs) /\ (k + 1) - 1 = k
      BY <2>4, <1>3, <1>1
    <3> HIDE DEF k
    <3> QED BY <3>1, ValidMeans
  <2>7. HashAt(rs, k) = HashAt(qs, k)
    BY <2>5, <2>6 DEF Follows
  <2>8. rs[k].hash = qs[k].hash
    BY <2>4, <2>7 DEF HashAt
  <2>9. rs[k] = qs[k]
    <3>1. k \in 1 .. Len(rs) /\ k \in 1 .. Len(qs)
      BY <2>4, <1>3, <1>1
    <3> HIDE DEF k
    <3> QED BY <2>4, <2>8, <3>1, HashDeterminesRow
  <2> QED BY <2>1, <2>9
<1>5. \A k \in 1 .. n : rs[k] = qs[k]
  <2> SUFFICES ASSUME NEW k \in 1 .. n PROVE rs[k] = qs[k]
    OBVIOUS
  <2>1. n - k \in Nat /\ n - k < n /\ n - (n - k) = k
    BY <1>1
  <2> QED BY <1>4, <2>1
<1> QED BY <1>3, <1>5, SeqEqual

-----------------------------------------------------------------------------
(* Types.                                                                  *)

LEMMA HeadIsDigest ==
    ASSUME NEW rs \in Seq(Row), NEW k \in 0 .. Len(rs)
    PROVE  HashAt(rs, k) \in Digests /\ HeadOf(rs) \in Digests
<1>1. ZeroHash \in Digests
  BY EmptySeq DEF ZeroHash, Digests
<1>2. Len(rs) \in Nat
  OBVIOUS
<1>3. \A i \in 1 .. Len(rs) : rs[i].hash \in Digests
  <2> SUFFICES ASSUME NEW i \in 1 .. Len(rs) PROVE rs[i].hash \in Digests
    OBVIOUS
  <2>1. rs[i] \in Row
    OBVIOUS
  <2> QED BY <2>1 DEF Row
<1> QED BY <1>1, <1>2, <1>3 DEF HashAt, HeadOf

\* A row that is appended has the type of a row.
LEMMA NewRowIsRow ==
    ASSUME work \in Seq(Row), NEW event \in Events
    PROVE  NewRow(event) \in Row /\ Append(work, NewRow(event)) \in Seq(Row)
<1>1. HeadOf(work) \in Digests /\ Len(work) + 1 \in Nat /\ event \in Contents
  BY HeadIsDigest DEF Contents
<1>2. EventHash(HeadOf(work), Len(work) + 1, event) \in Digests
  BY <1>1, HashProperties
<1>3. NewRow(event) \in Row
  BY <1>1, <1>2 DEF NewRow, Row
<1> QED BY <1>3

\* Tampering leaves a table of rows.
LEMMA TamperedIsTable ==
    ASSUME rows \in Seq(Row), NEW rs \in Tamperings
    PROVE  rs \in Seq(Row)
<1>1. \A k \in DOMAIN rows : /\ rows[k] \in Row /\ k \in 1 .. Len(rows)
                              /\ k - 1 \in 0 .. Len(rows) /\ k \in Nat
  OBVIOUS
<1>2. ASSUME NEW k \in DOMAIN rows, NEW e \in Contents,
             rs = [rows EXCEPT ![k].event = e]
      PROVE  rs \in Seq(Row)
  <2>1. [rows[k] EXCEPT !.event = e] \in Row
    BY <1>1 DEF Row
  <2>2. rs = [rows EXCEPT ![k] = [rows[k] EXCEPT !.event = e]]
    BY <1>2
  <2> QED BY <1>1, <2>1, <2>2, ExceptSeq
<1>3. ASSUME NEW k \in DOMAIN rows, NEW d \in Digests,
             rs = [rows EXCEPT ![k].hash = d]
      PROVE  rs \in Seq(Row)
  <2>1. [rows[k] EXCEPT !.hash = d] \in Row
    BY <1>1 DEF Row
  <2>2. rs = [rows EXCEPT ![k] = [rows[k] EXCEPT !.hash = d]]
    BY <1>3
  <2> QED BY <1>1, <2>1, <2>2, ExceptSeq
<1>4. ASSUME NEW k \in DOMAIN rows, NEW d \in Digests,
             rs = [rows EXCEPT ![k].previous = d]
      PROVE  rs \in Seq(Row)
  <2>1. [rows[k] EXCEPT !.previous = d] \in Row
    BY <1>1 DEF Row
  <2>2. rs = [rows EXCEPT ![k] = [rows[k] EXCEPT !.previous = d]]
    BY <1>4
  <2> QED BY <1>1, <2>1, <2>2, ExceptSeq
<1>5. ASSUME NEW k \in DOMAIN rows, rs = RemoveAt(rows, k)
      PROVE  rs \in Seq(Row)
  <2>1. SubSeq(rows, 1, k - 1) \in Seq(Row) /\ SubSeq(rows, k + 1, Len(rows)) \in Seq(Row)
    BY <1>1
  <2> QED BY <1>5, <2>1, ConcatProperties DEF RemoveAt
<1>6. ASSUME NEW k \in DOMAIN rows
      PROVE  /\ EventHash(rows[k].previous, k, rows[k].event) \in Digests
             /\ HashAt(rows, k - 1) \in Digests
  <2>1. rows[k].previous \in Digests /\ rows[k].event \in Contents
    BY <1>1 DEF Row
  <2>2. EventHash(rows[k].previous, k, rows[k].event) \in Digests
    BY <1>1, <2>1, HashProperties
  <2> QED BY <1>1, <2>2, HeadIsDigest
<1>7. \/ \E k \in DOMAIN rows, e \in Contents : rs = [rows EXCEPT ![k].event = e]
      \/ \E k \in DOMAIN rows :
           rs = [rows EXCEPT ![k].hash = EventHash(rows[k].previous, k, rows[k].event)]
      \/ \E k \in DOMAIN rows : rs = [rows EXCEPT ![k].previous = HashAt(rows, k - 1)]
      \/ \E k \in DOMAIN rows : rs = RemoveAt(rows, k)
  BY DEF Tamperings
<1> QED BY <1>2, <1>3, <1>4, <1>5, <1>6, <1>7

\* What a writer remembers has the type of a prefix.
LEMMA RememberedIsPrefix ==
    ASSUME TypeOK, NEW w \in Writers, writer = w, Remember(w)
    PROVE  cache' \in [Writers -> Prefix]
<1>1. HeadOf(work) \in Digests /\ Len(work) \in Nat
  BY HeadIsDigest DEF TypeOK
<1>2. [connection |-> connection, schema |-> schema, count |-> Len(work),
       head |-> HeadOf(work)] \in Prefix
  BY <1>1 DEF TypeOK, Prefix
<1> QED BY <1>2 DEF Remember, TypeOK

LEMMA NoPrefixIsPrefix == NoPrefix \in Prefix
  BY EmptySeq DEF NoPrefix, Prefix, Digests, ZeroHash

LEMMA TypesInit == Init => TypeOK
<1> SUFFICES ASSUME Init PROVE TypeOK
  OBVIOUS
<1>1. <<>> \in Seq(Row)
  BY EmptySeq
<1> QED BY <1>1, NoPrefixIsPrefix, ChainAssumption DEF Init, TypeOK

\* Every step keeps the types.
LEMMA TypesKept ==
    ASSUME TypeOK, [Next]_vars
    PROVE  TypeOK'
<1>0. <<>> \in Seq(Row)
  BY EmptySeq
<1> USE ChainAssumption DEF TypeOK, NoTransaction, transaction
<1>1. ASSUME NEW w \in Writers, Start(w) PROVE TypeOK'
  BY <1>1, NoPrefixIsPrefix DEF Start
<1>2. ASSUME NEW w \in Writers, Stop(w) PROVE TypeOK'
  BY <1>0, <1>2 DEF Stop
<1>3. ASSUME NEW w \in Writers, Begin(w) PROVE TypeOK'
  BY <1>3 DEF Begin
<1>4. ASSUME NEW w \in Writers, AppendEvent(w) PROVE TypeOK'
  <2>1. work' \in Seq(Row)
    BY <1>4, NewRowIsRow DEF AppendEvent
  <2>2. cache' \in [Writers -> Prefix]
    BY <1>4, RememberedIsPrefix DEF AppendEvent
  <2> QED BY <1>4, <2>1, <2>2 DEF AppendEvent
<1>5. ASSUME NEW w \in Writers, RefuseEvent(w) PROVE TypeOK'
  BY <1>0, <1>5 DEF RefuseEvent
<1>6. ASSUME NEW w \in Writers, Commit(w) PROVE TypeOK'
  BY <1>0, <1>6 DEF Commit
<1>7. ASSUME NEW w \in Writers, Rollback(w) PROVE TypeOK'
  BY <1>0, <1>7 DEF Rollback
<1>8. ASSUME Verify PROVE TypeOK'
  BY <1>8 DEF Verify
<1>9. ASSUME Tamper PROVE TypeOK'
  <2>1. rows' \in Seq(Row)
    BY <1>9, TamperedIsTable DEF Tamper
  <2> QED BY <1>9, <2>1 DEF Tamper
<1>10. CASE UNCHANGED vars
  BY <1>10 DEF vars
<1> QED BY <1>1, <1>2, <1>3, <1>4, <1>5, <1>6, <1>7, <1>8, <1>9, <1>10 DEF Next

\* All variables keep their types.
THEOREM TypeCorrect == Spec => []TypeOK
<1>1. TypeOK /\ [Next]_vars => TypeOK'
  BY TypesKept
<1> QED BY TypesInit, <1>1, PTL DEF Spec

-----------------------------------------------------------------------------
(* The cached prefix.                                                      *)

\* Appending to a valid chain gives a valid chain.
LEMMA AppendStaysValid ==
    ASSUME work \in Seq(Row), Valid(work), NEW event \in Events
    PROVE  Valid(Append(work, NewRow(event)))
<1> DEFINE longer == Append(work, NewRow(event))
<1>1. /\ Len(work) \in Nat /\ Len(longer) = Len(work) + 1
      /\ longer[Len(work) + 1] = NewRow(event)
      /\ \A k \in 1 .. Len(work) : longer[k] = work[k]
  BY NewRowIsRow
<1> HIDE DEF longer
<1>2. \A k \in 0 .. Len(work) : HashAt(longer, k) = HashAt(work, k)
  BY <1>1 DEF HashAt
<1>3. ASSUME NEW k \in 1 .. Len(work)
      PROVE  Follows(longer, k, HashAt(longer, k - 1))
  <2>1. Follows(work, k, HashAt(work, k - 1))
    BY ValidMeans
  <2>2. longer[k] = work[k] /\ HashAt(longer, k - 1) = HashAt(work, k - 1)
    BY <1>1, <1>2
  <2> QED BY <2>1, <2>2 DEF Follows
<1>4. Follows(longer, Len(work) + 1, HashAt(longer, Len(work)))
  <2>1. HashAt(longer, Len(work)) = HeadOf(work)
    BY <1>1, <1>2 DEF HeadOf
  <2> QED BY <1>1, <2>1 DEF Follows, NewRow
<1>5. \A k \in 1 .. Len(longer) : Follows(longer, k, HashAt(longer, k - 1))
  BY <1>1, <1>3, <1>4
<1> QED BY <1>5, ValidMeans DEF longer

\* With the invariant, the shortcut and the scan agree.
LEMMA Decides ==
    ASSUME IInv, NEW w \in Writers, writer = w
    PROVE  Accepts(w) <=> Valid(work)
<1> SUFFICES ASSUME Usable(w)
             PROVE  Valid(work) /\ VerifiedAfter(work, cache[w].count, cache[w].head)
  BY DEF Accepts
<1>1. writer # Nobody
  BY ChainAssumption
<1>2. Valid(work)
  BY <1>1 DEF Usable, IInv, CacheIsSound
<1>3. cache[w] \in Prefix /\ work \in Seq(Row)
  BY DEF IInv, TypeOK
<1> DEFINE c == cache[w].count
           h == cache[w].head
<1>4. c \in Nat /\ Len(work) \in Nat
  BY <1>3 DEF Prefix
<1>5. h = HashAt(work, c)
  <2>1. CASE c = 0
    BY <2>1 DEF IInv, CacheIsOlder, HashAt
  <2>2. CASE c > 0
    <3>1. PICK k \in 1 .. Len(work) : work[k].id = c /\ work[k].hash = h
      BY <2>2 DEF Usable
    <3>2. work[k].id = k
      BY <1>2, ValidMeans DEF Follows
    <3> QED BY <2>2, <3>1, <3>2 DEF HashAt
  <2> QED BY <1>4, <2>1, <2>2
<1>6. ASSUME NEW k \in c + 1 .. Len(work)
      PROVE  Follows(work, k, IF k = c + 1 THEN h ELSE HashAt(work, k - 1))
  <2>1. k \in 1 .. Len(work)
    BY <1>4
  <2>2. Follows(work, k, HashAt(work, k - 1))
    BY <1>2, <2>1, ValidMeans
  <2>3. k = c + 1 => HashAt(work, k - 1) = h
    BY <1>4, <1>5
  <2> QED BY <2>2, <2>3
<1> QED BY <1>2, <1>6 DEF VerifiedAfter

LEMMA InvInit == Init => IInv
<1> SUFFICES ASSUME Init PROVE IInv
  OBVIOUS
<1>1. Valid(<<>>)
  BY ValidMeans
<1>2. TypeOK
  BY TypesInit
<1>3. CacheIsOlder /\ CacheIsSound /\ WorkIsSound
  BY <1>1 DEF Init, CacheIsOlder, CacheIsSound, WorkIsSound, NoPrefix
<1> QED BY <1>1, <1>2, <1>3 DEF Init, IInv

\* Every step keeps the invariant.
LEMMA InvKept ==
    ASSUME IInv, [Next]_vars
    PROVE  IInv'
<1>0. TypeOK' /\ TypeOK
  BY TypesKept DEF IInv
<1> DEFINE Rest == CacheIsOlder /\ CacheIsSound /\ WorkIsSound /\ Valid(noted)
<1>a. Rest
  BY DEF IInv
<1> USE ChainAssumption, <1>a
        DEF NoTransaction, transaction, CacheIsOlder, CacheIsSound, WorkIsSound, NoPrefix
<1>1. ASSUME NEW w \in Writers, Start(w) PROVE Rest'
  BY <1>0, <1>1 DEF Start, TypeOK
<1>2. ASSUME NEW w \in Writers, Stop(w) PROVE Rest'
  BY <1>2 DEF Stop
<1>3. ASSUME NEW w \in Writers, Begin(w) PROVE Rest'
  BY <1>3 DEF Begin
<1>4. ASSUME NEW w \in Writers, AppendEvent(w) PROVE Rest'
  <2>1. writer = w /\ writer # Nobody /\ Valid(work) /\ Valid(rows)
    BY <1>4, Decides DEF AppendEvent
  <2>2. Valid(work')
    BY <1>0, <1>4, <2>1, AppendStaysValid DEF AppendEvent, TypeOK
  <2>3. /\ cache'[w].schema = schema /\ cache'[w].count = Len(work)
        /\ cache'[w].head = HeadOf(work)
        /\ \A v \in Writers \ {w} : cache'[v] = cache[v]
    BY <1>0, <1>4 DEF AppendEvent, Remember, TypeOK
  <2>4. Len(work) = 0 => HeadOf(work) = ZeroHash
    BY DEF HeadOf, HashAt
  <2>5. UNCHANGED <<rows, schema, writer, noted>>
    BY <1>4 DEF AppendEvent
  <2>6. CacheIsOlder'
    <3>1. schema \in Nat
      BY <1>0 DEF TypeOK
    <3> QED BY <2>3, <2>4, <2>5, <3>1
  <2>7. CacheIsSound' /\ WorkIsSound'
    BY <2>1, <2>2, <2>5
  <2>8. Valid(noted)'
    BY <2>5
  <2> QED BY <2>6, <2>7, <2>8
<1>5. ASSUME NEW w \in Writers, RefuseEvent(w) PROVE Rest'
  BY <1>5 DEF RefuseEvent
<1>6. ASSUME NEW w \in Writers, Commit(w) PROVE Rest'
  BY <1>6 DEF Commit
<1>7. ASSUME NEW w \in Writers, Rollback(w) PROVE Rest'
  BY <1>7 DEF Rollback
<1>8. ASSUME Verify PROVE Rest'
  BY <1>8 DEF Verify
<1>9. ASSUME Tamper PROVE Rest'
  <2>1. schema \in Nat /\ \A w \in Writers : cache[w].schema \in Nat
    BY <1>0 DEF TypeOK, Prefix
  <2> QED BY <1>9, <2>1 DEF Tamper
<1>10. ASSUME UNCHANGED vars PROVE Rest'
  BY <1>10 DEF vars
<1> HIDE DEF Rest
<1>11. Rest'
  BY <1>1, <1>2, <1>3, <1>4, <1>5, <1>6, <1>7, <1>8, <1>9, <1>10 DEF Next
<1> QED BY <1>0, <1>11 DEF IInv, Rest

LEMMA Invariance == Spec => []IInv
<1>1. IInv /\ [Next]_vars => IInv'
  BY InvKept
<1> QED BY InvInit, <1>1, PTL DEF Spec

-----------------------------------------------------------------------------
\* The writer accepts an event exactly when the whole chain verifies.
THEOREM CacheIsExact == Spec => []CacheDecidesLikeScan
<1>1. IInv => CacheDecidesLikeScan
  BY Decides DEF CacheDecidesLikeScan
<1> QED BY <1>1, Invariance, PTL

\* What the program commits verifies.
THEOREM OnlySoundCommits == Spec => CommitsVerify
<1>1. ASSUME IInv, [Next]_vars, writer # Nobody, rows' # rows
      PROVE  Valid(rows')
  <2>1. PICK w \in Writers : Commit(w)
    BY <1>1 DEF Next, vars, transaction, Start, Stop, Begin, AppendEvent, RefuseEvent,
                Rollback, Verify, Tamper
  <2> QED BY <1>1, <2>1 DEF Commit, IInv, WorkIsSound
<1>2. IInv /\ [Next]_vars => [writer # Nobody /\ rows' # rows => Valid(rows')]_vars
  BY <1>1
<1> QED BY <1>2, Invariance, PTL DEF Spec, CommitsVerify

\* A head that was noted down proves the whole history.
THEOREM HeadIsEvidence == Spec => []TamperingShows
<1>1. IInv => TamperingShows
  BY HeadDeterminesChain DEF IInv, TypeOK, TamperingShows, ValidUpTo
<1> QED BY <1>1, Invariance, PTL

=============================================================================
