---------------------- MODULE CallbackDelivery_proofs ----------------------
(***************************************************************************)
(* For any jobs, scripts, windows and clocks: receipts are honest, and the *)
(* adapter with its store implements the ledger and keeps the order of the *)
(* reports.  For any size of its cache, what the endpoint of PilotCallback *)
(* lets pass twice is bounded.                                             *)
(***************************************************************************)
EXTENDS CallbackDelivery, PilotCallback, PilotStatus_proofs

\* What an event id stands for.
LEMMA IdFacts ==
    ASSUME NEW id \in Ids
    PROVE  /\ JobOf(id) \in Jobs
           /\ TypeOf(id) \in EventType
           /\ Row(id) \in Rows
           /\ Row(id).id = id /\ Row(id).type = TypeOf(id)
<1>1. PICK j \in Jobs : \E i \in DOMAIN Script[j] : id = <<j, i>>
  BY DEF Ids
<1>2. Script[j] \in Seq(EventType)
  BY DeliveryAssumption
<1>3. PICK i \in DOMAIN Script[j] : id = <<j, i>>
  BY <1>1
<1>4. Script[j][i] \in EventType
  BY <1>2
<1>5. QED
  BY <1>3, <1>4 DEF JobOf, TypeOf, Row, Rows

\* The variables of the adapter and its store.
Adapter == <<secret, store, receipts>>

-----------------------------------------------------------------------------
(* The adapter.                                                            *)

\* What is inductive: the columns agree with well-ordered logs, and receipts
\* are for rows.  Without the columns' meaning the logs could not be shown to
\* be a ledger's, and without their types the rows could not be found again.
AdapterInv ==
    /\ secret \in [Jobs -> Jobs]
    /\ log \in [Jobs -> Seq(Rows)]
    /\ column \in [Jobs -> Status]
    /\ receipts \in [Ids -> Jobs \cup {None}]
    /\ \A j \in Jobs :
           /\ IsLog(log[j], Rows) /\ WellOrdered(log[j])
           /\ column[j] = StatusOf(log[j])
    /\ ReceiptMeansRecorded

LEMMA RowTypes == \A r \in Rows : r.type \in EventType
BY DEF Rows

LEMMA InitAdapter == Init => AdapterInv
BY EmptyLog, RowTypes DEF Init, AdapterInv, ReceiptMeansRecorded, Status

\* The two tables after a callback has been ingested.
LEMMA IngestTables ==
    ASSUME AdapterInv, NEW id \in Ids, Ingest(id)
    PROVE  LET j == JobOf(id) IN
           /\ j \in Jobs
           /\ log' \in [Jobs -> Seq(Rows)]
           /\ column' \in [Jobs -> Status]
           /\ log'[j] = Append(log[j], Row(id))
           /\ \A k \in Jobs \ {j} : log'[k] = log[k] /\ column'[k] = column[k]
           /\ column'[j] = StatusAfter(column[j], TypeOf(id))
           /\ IsLog(log'[j], Rows) /\ WellOrdered(log'[j])
           /\ column'[j] = StatusOf(log'[j])
<1> DEFINE j == JobOf(id)
<1>1. j \in Jobs /\ Row(id) \in Rows /\ TypeOf(id) \in EventType
      /\ Row(id).type = TypeOf(id)
  BY IdFacts
<1>2. log[j] \in Seq(Rows) /\ IsLog(log[j], Rows) /\ WellOrdered(log[j])
      /\ column[j] = StatusOf(log[j]) /\ column[j] \in Status
  BY <1>1 DEF AdapterInv
<1>3. log' = [log EXCEPT ![j] = Append(log[j], Row(id))]
      /\ column' = [column EXCEPT ![j] = StatusAfter(column[j], TypeOf(id))]
      /\ TypeOf(id) \in Allowed(column[j])
  BY DEF Ingest, Acceptable
<1>4. Append(log[j], Row(id)) \in Seq(Rows)
  BY <1>1, <1>2, AppendFacts
<1>5. StatusAfter(column[j], TypeOf(id)) \in Status
  BY <1>2 DEF StatusAfter, Target, Status
<1>6. /\ log' \in [Jobs -> Seq(Rows)] /\ log'[j] = Append(log[j], Row(id))
      /\ \A k \in Jobs \ {j} : log'[k] = log[k]
  BY <1>1, <1>3, <1>4 DEF AdapterInv
<1>7. /\ column' \in [Jobs -> Status]
      /\ column'[j] = StatusAfter(column[j], TypeOf(id))
      /\ \A k \in Jobs \ {j} : column'[k] = column[k]
  BY <1>1, <1>3, <1>5 DEF AdapterInv
<1>8. /\ IsLog(Append(log[j], Row(id)), Rows)
      /\ StatusOf(Append(log[j], Row(id))) = StatusAfter(StatusOf(log[j]), TypeOf(id))
  BY <1>1, <1>2, StatusOfAppend
<1>9. WellOrdered(Append(log[j], Row(id)))
  BY <1>1, <1>2, <1>3, WellOrderedAppend
<1>10. QED
  BY <1>1, <1>2, <1>6, <1>7, <1>8, <1>9

LEMMA IngestReceipts ==
    ASSUME AdapterInv, NEW id \in Ids, Ingest(id)
    PROVE  ReceiptMeansRecorded' /\ receipts' \in [Ids -> Jobs \cup {None}]
<1> DEFINE j == JobOf(id)
<1>1. /\ j \in Jobs /\ log[j] \in Seq(Rows) /\ Row(id) \in Rows /\ Row(id).id = id
      /\ log'[j] = Append(log[j], Row(id))
      /\ \A k \in Jobs \ {j} : log'[k] = log[k]
  BY IngestTables, IdFacts DEF AdapterInv
<1>2. /\ Len(log[j]) + 1 \in DOMAIN log'[j]
      /\ log'[j][Len(log[j]) + 1].id = id
      /\ \A i \in DOMAIN log[j] : i \in DOMAIN log'[j] /\ log'[j][i] = log[j][i]
  BY <1>1, AppendFacts
<1>3. Route(id) = j
  BY DEF Ingest, Acceptable, Authorized
<1>4. receipts' = receipts \/ receipts' = [receipts EXCEPT ![id] = j]
  BY <1>3 DEF Ingest
<1>5. receipts' \in [Ids -> Jobs \cup {None}]
  BY <1>1, <1>4 DEF AdapterInv
<1>6. ASSUME NEW e \in Ids, receipts'[e] # None
      PROVE  \E i \in DOMAIN log'[receipts'[e]] : log'[receipts'[e]][i].id = e
  <2>1. CASE receipts'[e] = receipts[e]
    <3>1. receipts[e] \in Jobs
      BY <2>1, <1>6 DEF AdapterInv
    <3>2. PICK i \in DOMAIN log[receipts[e]] : log[receipts[e]][i].id = e
      BY <2>1, <1>6 DEF AdapterInv, ReceiptMeansRecorded
    <3>3. CASE receipts[e] = j
      BY <2>1, <3>2, <3>3, <1>2
    <3>4. CASE receipts[e] # j
      BY <2>1, <3>1, <3>2, <3>4, <1>1
    <3>5. QED
      BY <3>3, <3>4
  <2>2. CASE receipts'[e] # receipts[e]
    <3>1. e = id /\ receipts'[e] = j
      BY <2>2, <1>4 DEF AdapterInv
    <3>2. QED
      BY <3>1, <1>2
  <2>3. QED
    BY <2>1, <2>2
<1>7. QED
  BY <1>5, <1>6 DEF ReceiptMeansRecorded

\* Whatever a step does besides, an ingest is the only one that the adapter or
\* its store takes part in.
LEMMA AdapterSteps ==
    ASSUME [Next]_vars
    PROVE  (\E id \in Ids : Ingest(id)) \/ UNCHANGED Adapter
BY DEF Next, vars, Adapter, Sign, Tick, store

LEMMA NextAdapter == AdapterInv /\ [Next]_vars => AdapterInv'
<1> SUFFICES ASSUME AdapterInv, [Next]_vars PROVE AdapterInv'
  OBVIOUS
<1>1. ASSUME NEW id \in Ids, Ingest(id) PROVE AdapterInv'
  <2>1. secret' = secret
    BY <1>1 DEF Ingest
  <2>2. QED
    BY <1>1, <2>1, IngestTables, IngestReceipts DEF AdapterInv
<1>2. CASE UNCHANGED Adapter
  BY <1>2 DEF AdapterInv, Adapter, store, ReceiptMeansRecorded
<1>3. QED
  BY <1>1, <1>2, AdapterSteps

\* A worker never holds a receipt for an event that is not a row of the job the
\* receipt's route is pinned to, whatever routes' secrets workers hold, and
\* however callbacks are repeated, reordered and lost.
THEOREM ReceiptsAreHonest == Spec => []ReceiptMeansRecorded
<1>1. AdapterInv => ReceiptMeansRecorded
  BY DEF AdapterInv
<1>2. QED
  BY <1>1, InitAdapter, NextAdapter, PTL DEF Spec

-----------------------------------------------------------------------------
(* The ledger.                                                             *)

LEMMA SameTables ==
    /\ \A s : Ledger!Allowed(s) = Allowed(s)
    /\ \A rows : Ledger!StatusOf(rows) = StatusOf(rows)
BY Zenon DEF Ledger!Allowed, Ledger!Pausing, Ledger!StatusOf, Ledger!MovesIn,
       Ledger!LastMove, Ledger!Target, Ledger!Moves, Allowed, Pausing,
       StatusOf, MovesIn, LastMove, Target, Moves

\* Callbacks that reach the adapter over any network, under any clock, make its
\* store an implementation of the ledger: what it promises, it promises here.
THEOREM ImplementsLedger == Spec => LedgerSpec
<1>1. Init => Ledger!Init
  BY DEF Init, Ledger!Init
<1>2. ASSUME AdapterInv, [Next]_vars
      PROVE  Ledger!Next \/ UNCHANGED log
  <2>1. ASSUME NEW id \in Ids, Ingest(id) PROVE Ledger!Next
    <3>1. JobOf(id) \in Jobs /\ Row(id) \in Rows /\ Row(id).id = id
          /\ Row(id).type = TypeOf(id)
      BY IdFacts
    <3>2. Ledger!Fresh(Row(id).id)
      BY <2>1, <3>1 DEF Ingest, Acceptable, NewId, Ledger!Fresh
    <3>3. Row(id).type \in Ledger!Allowed(Ledger!StatusOf(log[JobOf(id)]))
      <4>1. TypeOf(id) \in Allowed(column[JobOf(id)])
        BY <2>1 DEF Ingest, Acceptable
      <4>2. column[JobOf(id)] = StatusOf(log[JobOf(id)])
        BY <1>2, <3>1 DEF AdapterInv
      <4>3. Ledger!Allowed(Ledger!StatusOf(log[JobOf(id)]))
                = Allowed(StatusOf(log[JobOf(id)]))
        BY SameTables
      <4>4. QED
        BY <3>1, <4>1, <4>2, <4>3
    <3>4. log' = [log EXCEPT ![JobOf(id)] = Append(@, Row(id))]
      BY <2>1 DEF Ingest
    <3>5. QED
      BY <3>1, <3>2, <3>3, <3>4 DEF Ledger!Next, Ledger!Accept
  <2>2. CASE UNCHANGED Adapter
    BY <2>2 DEF Adapter, store
  <2>3. QED
    BY <1>2, <2>1, <2>2, AdapterSteps
<1>3. QED
  BY <1>1, <1>2, InitAdapter, NextAdapter, PTL DEF Spec, LedgerSpec, Ledger!Spec

-----------------------------------------------------------------------------
(* The endpoint.                                                           *)

\* The cache holds, in order, at least the last MaxReplayIds ids accepted since
\* the last restart.
CacheInv ==
    /\ seen \in Seq(SpelledIds) /\ Len(seen) <= MaxReplayIds
    /\ accepted \in Seq(SpelledIds \cup {Restarted})
    /\ \A i \in 1..Len(accepted) :
           /\ \A n \in i..Len(accepted) : accepted[n] # Restarted
           /\ Len(accepted) - i < MaxReplayIds
           => /\ Len(accepted) - i < Len(seen)
              /\ seen[Len(seen) - (Len(accepted) - i)] = accepted[i]

LEMMA InitCache ==
    ASSUME MaxReplayIds \in Nat, CacheInit
    PROVE  CacheInv /\ ReplayBounded
BY DEF CacheInit, CacheInv, ReplayBounded

\* Dropping the oldest id of a full cache shifts the others by one.
LEMMA DropOldestFacts ==
    ASSUME MaxReplayIds \in Nat, NEW ids \in Seq(SpelledIds), Len(ids) <= MaxReplayIds, NEW id \in SpelledIds
    PROVE  LET new == DropOldest(Append(ids, id))
               gone == IF Len(ids) = MaxReplayIds THEN 1 ELSE 0
           IN  /\ new \in Seq(SpelledIds)
               /\ Len(new) = Len(ids) + 1 - gone
               /\ \A n \in 1..Len(new) : new[n] = Append(ids, id)[n + gone]
<1>1. MaxReplayIds \in Nat /\ Len(ids) \in Nat
  OBVIOUS
<1>2. Append(ids, id) \in Seq(SpelledIds) /\ Len(Append(ids, id)) = Len(ids) + 1
  OBVIOUS
<1>3. CASE Len(ids) = MaxReplayIds
  BY <1>1, <1>2, <1>3 DEF DropOldest
<1>4. CASE Len(ids) # MaxReplayIds
  <2>1. DropOldest(Append(ids, id)) = Append(ids, id)
    BY <1>1, <1>2, <1>4 DEF DropOldest
  <2>2. \A n \in 1..(Len(ids) + 1) : n + 0 = n
    BY <1>1
  <2>3. QED
    BY <1>1, <1>2, <1>4, <2>1, <2>2
<1>5. QED
  BY <1>3, <1>4

LEMMA ReceiveCache ==
    ASSUME MaxReplayIds \in Nat, CacheInv, NEW id \in SpelledIds, Receive(id)
    PROVE  CacheInv'
<1> DEFINE more == Append(seen, id)
           gone == IF Len(seen) = MaxReplayIds THEN 1 ELSE 0
<1>1. /\ MaxReplayIds \in Nat /\ Len(seen) \in Nat /\ Len(accepted) \in Nat
      /\ Len(seen) <= MaxReplayIds
  BY DEF CacheInv
<1>2. /\ seen' \in Seq(SpelledIds) /\ Len(seen') = Len(seen) + 1 - gone
      /\ \A n \in 1..Len(seen') : seen'[n] = more[n + gone]
  BY DropOldestFacts DEF Receive, CacheInv
<1>3. /\ accepted' \in Seq(SpelledIds \cup {Restarted})
      /\ Len(accepted') = Len(accepted) + 1
      /\ \A i \in 1..Len(accepted) : accepted'[i] = accepted[i]
      /\ accepted'[Len(accepted) + 1] = id
  BY DEF Receive, CacheInv
<1>4. /\ \A n \in 1..Len(seen) : more[n] = seen[n]
      /\ more[Len(seen) + 1] = id
  BY DEF CacheInv
<1>5. ASSUME NEW i \in 1..Len(accepted'),
             \A n \in i..Len(accepted') : accepted'[n] # Restarted,
             Len(accepted') - i < MaxReplayIds
      PROVE  /\ Len(accepted') - i < Len(seen')
             /\ seen'[Len(seen') - (Len(accepted') - i)] = accepted'[i]
  <2>1. CASE i = Len(accepted) + 1
    BY <1>1, <1>2, <1>3, <1>4, <1>5, <2>1
  <2>2. CASE i <= Len(accepted)
    <3>1. i \in 1..Len(accepted) /\ Len(accepted) - i < MaxReplayIds
      BY <1>1, <1>3, <1>5, <2>2
    <3>2. \A n \in i..Len(accepted) : accepted[n] # Restarted
      BY <1>1, <1>3, <1>5, <2>2
    <3>3. /\ Len(accepted) - i < Len(seen)
          /\ seen[Len(seen) - (Len(accepted) - i)] = accepted[i]
      BY <3>1, <3>2 DEF CacheInv
    <3> DEFINE d == Len(accepted) - i
    <3>4. /\ d \in Nat /\ d < Len(seen) /\ d + 1 < MaxReplayIds
          /\ Len(accepted') - i = d + 1
      BY <1>1, <1>3, <1>5, <3>1, <3>3
    <3>5. gone \in {0, 1} /\ (gone = 1 => Len(seen) = MaxReplayIds)
      OBVIOUS
    <3> HIDE DEF d, gone, more
    <3>6. /\ d + 1 < Len(seen')
          /\ Len(seen') - (d + 1) \in 1..Len(seen')
          /\ Len(seen') - (d + 1) + gone = Len(seen) - d
          /\ Len(seen) - d \in 1..Len(seen)
      BY <1>1, <1>2, <3>4, <3>5
    <3>7. seen'[Len(seen') - (d + 1)] = seen[Len(seen) - d]
      BY <1>2, <1>4, <3>6
    <3>8. seen[Len(seen) - d] = accepted[i] /\ accepted'[i] = accepted[i]
      BY <1>3, <3>1, <3>3 DEF d
    <3>9. QED
      BY <3>4, <3>6, <3>7, <3>8
  <2>3. QED
    BY <1>1, <1>3, <2>1, <2>2
<1>6. QED
  BY <1>1, <1>2, <1>3, <1>5 DEF CacheInv

LEMMA ReceiveBounded ==
    ASSUME MaxReplayIds \in Nat, CacheInv, ReplayBounded, NEW id \in SpelledIds, Receive(id)
    PROVE  ReplayBounded'
<1>1. /\ MaxReplayIds \in Nat /\ Len(seen) \in Nat /\ Len(accepted) \in Nat
      /\ DOMAIN accepted = 1..Len(accepted)
      /\ DOMAIN accepted' = 1..(Len(accepted) + 1)
      /\ \A i \in 1..Len(accepted) : accepted'[i] = accepted[i]
      /\ accepted'[Len(accepted) + 1] = id
  BY DEF Receive, CacheInv
<1>2. ASSUME NEW i \in DOMAIN accepted', NEW k \in DOMAIN accepted', i < k,
             accepted'[i] = accepted'[k], accepted'[i] # Restarted
      PROVE  (\E n \in i..k : accepted'[n] = Restarted) \/ k - i > MaxReplayIds
  <2>1. CASE k \in 1..Len(accepted)
    <3>1. /\ i \in DOMAIN accepted /\ k \in DOMAIN accepted
          /\ accepted[i] = accepted[k] /\ accepted[i] # Restarted
      BY <1>1, <1>2, <2>1
    <3>2. (\E n \in i..k : accepted[n] = Restarted) \/ k - i > MaxReplayIds
      BY <1>2, <3>1 DEF ReplayBounded
    <3>3. \A n \in i..k : accepted'[n] = accepted[n]
      BY <1>1, <3>1
    <3>4. QED
      BY <3>2, <3>3
  <2>2. CASE k = Len(accepted) + 1
    <3>1. i \in 1..Len(accepted) /\ accepted[i] = id
      BY <1>1, <1>2, <2>2
    <3>2. ASSUME \A n \in i..k : accepted'[n] # Restarted, k - i <= MaxReplayIds
          PROVE  FALSE
      <4>1. \A n \in i..Len(accepted) : accepted[n] # Restarted
        BY <1>1, <2>2, <3>1, <3>2
      <4>2. Len(accepted) - i < MaxReplayIds
        BY <1>1, <2>2, <3>1, <3>2
      <4>3. /\ Len(accepted) - i < Len(seen)
            /\ seen[Len(seen) - (Len(accepted) - i)] = id
        BY <3>1, <4>1, <4>2 DEF CacheInv
      <4>4. Len(seen) - (Len(accepted) - i) \in DOMAIN seen
        BY <1>1, <3>1, <4>3 DEF CacheInv
      <4>5. QED
        BY <4>3, <4>4 DEF Receive
    <3>3. QED
      BY <1>1, <2>2, <3>1, <3>2
  <2>3. QED
    BY <1>1, <2>1, <2>2
<1>3. QED
  BY <1>2 DEF ReplayBounded

LEMMA RestartCache ==
    ASSUME MaxReplayIds \in Nat, CacheInv, ReplayBounded, Restart
    PROVE  CacheInv' /\ ReplayBounded'
<1>1. /\ MaxReplayIds \in Nat /\ Len(accepted) \in Nat
      /\ DOMAIN accepted = 1..Len(accepted)
      /\ accepted' \in Seq(SpelledIds \cup {Restarted})
      /\ DOMAIN accepted' = 1..(Len(accepted) + 1)
      /\ Len(accepted') = Len(accepted) + 1
      /\ \A i \in 1..Len(accepted) : accepted'[i] = accepted[i]
      /\ accepted'[Len(accepted) + 1] = Restarted
      /\ seen' = <<>>
  BY DEF Restart, CacheInv
<1>2. CacheInv'
  BY <1>1 DEF CacheInv
<1>3. ASSUME NEW i \in DOMAIN accepted', NEW k \in DOMAIN accepted', i < k,
             accepted'[i] = accepted'[k], accepted'[i] # Restarted
      PROVE  (\E n \in i..k : accepted'[n] = Restarted) \/ k - i > MaxReplayIds
  <2>1. /\ i \in DOMAIN accepted /\ k \in DOMAIN accepted
        /\ accepted[i] = accepted[k] /\ accepted[i] # Restarted
    BY <1>1, <1>3
  <2>2. (\E n \in i..k : accepted[n] = Restarted) \/ k - i > MaxReplayIds
    BY <1>3, <2>1 DEF ReplayBounded
  <2>3. \A n \in i..k : accepted'[n] = accepted[n]
    BY <1>1, <2>1
  <2>4. QED
    BY <2>2, <2>3
<1>4. QED
  BY <1>2, <1>3 DEF ReplayBounded

LEMMA NextCache ==
    ASSUME MaxReplayIds \in Nat, CacheInv, ReplayBounded, [CacheNext]_cacheVars
    PROVE  CacheInv' /\ ReplayBounded'
<1>1. ASSUME NEW id \in SpelledIds, Receive(id) PROVE CacheInv' /\ ReplayBounded'
  BY <1>1, ReceiveCache, ReceiveBounded
<1>2. CASE Restart
  BY <1>2, RestartCache
<1>3. CASE UNCHANGED cacheVars
  BY <1>3 DEF CacheInv, ReplayBounded, cacheVars
<1>4. QED
  BY <1>1, <1>2, <1>3 DEF CacheNext

\* One process accepts an event id, spelled the same way, a second time only
\* after as many other ids as its cache remembers.
THEOREM ReplaysAreBounded ==
    ASSUME MaxReplayIds \in Nat
    PROVE  CacheSpec => []ReplayBounded
<1>1. CacheInit => CacheInv /\ ReplayBounded
  BY InitCache
<1>2. CacheInv /\ ReplayBounded /\ [CacheNext]_cacheVars => CacheInv' /\ ReplayBounded'
  BY NextCache
<1>3. QED
  BY <1>1, <1>2, PTL DEF CacheSpec

-----------------------------------------------------------------------------
(* Types, of what the two ends keep and of what lies between them.         *)

LEMMA NextClock ==
    ASSUME TypeOK, [Next]_vars
    PROVE  now' \in 0..MaxTime /\ signed' \in [Ids -> SUBSET (0..MaxTime)]
<1>1. ASSUME NEW id \in Ids, Sign(id) PROVE now' = now /\ signed' = [signed EXCEPT ![id] = @ \cup {now}]
  BY <1>1 DEF Sign
<1>2. ASSUME NEW time \in 0..MaxTime, Tick(time) PROVE now' = time /\ signed' = signed
  BY <1>2 DEF Tick
<1>3. \/ \E id \in Ids : Sign(id)
      \/ \E time \in 0..MaxTime : Tick(time)
      \/ UNCHANGED <<now, signed>>
  BY DEF Next, vars, Ingest
<1>4. QED
  BY <1>1, <1>2, <1>3 DEF TypeOK

\* The clock, the signatures on their way, both tables and the receipts stay in
\* their types.
THEOREM TypeCorrect == Spec => []TypeOK
<1>1. Init => TypeOK
  BY InitAdapter, DeliveryAssumption DEF Init, TypeOK, AdapterInv
<1>2. ASSUME TypeOK, AdapterInv, [Next]_vars
      PROVE  TypeOK' /\ AdapterInv'
  BY <1>2, NextClock, NextAdapter DEF TypeOK, AdapterInv
<1>3. QED
  BY <1>1, <1>2, InitAdapter, PTL DEF Spec

-----------------------------------------------------------------------------
(* The order of the rows.                                                  *)

\* What the worker of a Pilot reports, all of it, would be a well-ordered log.
ScriptRows(j) == [n \in DOMAIN Script[j] |-> Row(<<j, n>>)]

Orderly == \A j \in Jobs : WellOrdered(ScriptRows(j))

\* The row is the n-th event of the script of j.
IsReport(row, j, n) == row.id = <<j, n>> /\ row.type = Script[j][n]

\* Every row is an event of its own job, and no event is there twice.
RowsInv ==
    /\ \A j \in Jobs : \A i \in DOMAIN log[j] :
           \E n \in DOMAIN Script[j] : IsReport(log[j][i], j, n)
    /\ OnceIn(log, Jobs)

LEMMA IngestRows ==
    ASSUME AdapterInv, RowsInv, NEW id \in Ids, Ingest(id)
    PROVE  RowsInv'
<1> DEFINE j == JobOf(id)
<1>1. /\ j \in Jobs
      /\ Row(id) \in Rows
      /\ IsAppended(log', log, Jobs, j, Row(id))
      /\ log[j] \in Seq(Rows)
      /\ log \in [Jobs -> Seq(Rows)]
  BY IngestTables, IdFacts DEF IsAppended, AdapterInv
<1>2. \A k \in Jobs : \A i \in DOMAIN log[k] : log[k][i].id # Row(id).id
  BY IdFacts DEF Ingest, Acceptable, NewId
<1>3. OnceIn(log', Jobs)
  BY <1>1, <1>2, OnceAppend DEF RowsInv
<1>4. \E n \in DOMAIN Script[j] : IsReport(Row(id), j, n)
  <2>1. PICK k \in Jobs : \E n \in DOMAIN Script[k] : id = <<k, n>>
    BY DEF Ids
  <2>2. PICK n \in DOMAIN Script[k] : id = <<k, n>>
    BY <2>1
  <2>3. j = k
    BY <2>2 DEF JobOf
  <2>4. IsReport(Row(id), k, n)
    BY <2>2 DEF IsReport, Row, TypeOf
  <2>5. QED
    BY <2>2, <2>3, <2>4
<1>5. ASSUME NEW k \in Jobs, NEW i \in DOMAIN log'[k]
      PROVE  \E n \in DOMAIN Script[k] : IsReport(log'[k][i], k, n)
  <2>1. CASE k # j
    BY <2>1, <1>1 DEF IsAppended, RowsInv
  <2>2. CASE k = j
    <3>1. \/ i \in DOMAIN log[j] /\ log'[j][i] = log[j][i]
          \/ log'[j][i] = Row(id)
      BY <1>1, <2>2, AppendFacts DEF IsAppended
    <3>2. QED
      BY <1>1, <1>4, <2>2, <3>1 DEF RowsInv
  <2>3. QED
    BY <2>1, <2>2
<1>6. QED
  BY <1>3, <1>5 DEF RowsInv, OnceIn, IsReport

\* In a well-ordered log of a well-ordered script, an event that moves the job
\* stands where the script has it: what the log lets follow it, the script does.
LEMMA MovesInOrder ==
    ASSUME Orderly, AdapterInv, RowsInv
    PROVE  ReportedInOrder
<1> SUFFICES ASSUME NEW j \in Jobs, NEW i \in DOMAIN log[j],
                    NEW k \in DOMAIN log[j], i < k,
                    log[j][i].type \in Moves \/ log[j][k].type \in Moves
             PROVE  log[j][i].id[2] < log[j][k].id[2]
  BY DEF ReportedInOrder
<1>1. PICK n \in DOMAIN Script[j] : IsReport(log[j][i], j, n)
  BY DEF RowsInv
<1>2. PICK m \in DOMAIN Script[j] : IsReport(log[j][k], j, m)
  BY DEF RowsInv
<1>3. /\ log[j][i].id[2] = n /\ log[j][k].id[2] = m
      /\ log[j][i].type = Script[j][n] /\ log[j][k].type = Script[j][m]
  BY <1>1, <1>2 DEF IsReport
<1>4. /\ Script[j] \in Seq(EventType)
      /\ DOMAIN Script[j] = 1..Len(Script[j])
      /\ n \in Nat /\ m \in Nat /\ 1 <= n /\ 1 <= m
  BY DeliveryAssumption
<1>5. /\ log[j] \in Seq(Rows)
      /\ i \in Nat /\ k \in Nat /\ 1 <= i
  BY DEF AdapterInv
<1>6. n # m
  <2>1. log[j][i].id # log[j][k].id
    BY <1>5 DEF RowsInv, OnceIn
  <2>2. QED
    BY <1>1, <1>2, <2>1 DEF IsReport
<1>7. WellOrdered(log[j])
  BY DEF AdapterInv
<1>8. ASSUME m < n PROVE FALSE
  <2>1. \A x, y \in DOMAIN Script[j] : x < y =>
            /\ Script[j][y] # "PILOT_STARTED"
            /\ Script[j][x] # "COMPENSATING_REVERTED"
            /\ Script[j][x] \in Pausing => Script[j][y] = "COMPENSATING_REVERTED"
    <3>1. /\ DOMAIN ScriptRows(j) = DOMAIN Script[j]
          /\ \A x \in DOMAIN Script[j] : ScriptRows(j)[x].type = Script[j][x]
      BY DEF ScriptRows, Row, TypeOf
    <3>2. QED
      BY <3>1 DEF Orderly, WellOrdered
  <2>2. /\ Script[j][n] # "PILOT_STARTED"
        /\ Script[j][m] # "COMPENSATING_REVERTED"
        /\ Script[j][m] \in Pausing => Script[j][n] = "COMPENSATING_REVERTED"
    BY <1>8, <2>1
  <2>3. /\ Script[j][m] # "PILOT_STARTED"
        /\ Script[j][n] # "COMPENSATING_REVERTED"
        /\ Script[j][n] \in Pausing => Script[j][m] = "COMPENSATING_REVERTED"
    BY <1>3, <1>7 DEF WellOrdered
  <2>4. QED
    BY <1>3, <2>2, <2>3 DEF Moves
<1>9. QED
  BY <1>3, <1>4, <1>6, <1>8

\* However the network reorders, repeats and loses the callbacks of a job, what
\* is recorded is in the order the worker reported it, but for events that
\* leave the status alone.
THEOREM RecordedInOrder ==
    ASSUME Orderly
    PROVE  Spec => []ReportedInOrder
<1>1. Init => RowsInv
  BY DEF Init, RowsInv, OnceIn
<1>2. AdapterInv /\ RowsInv /\ [Next]_vars => RowsInv'
  <2> SUFFICES ASSUME AdapterInv, RowsInv, [Next]_vars PROVE RowsInv'
    OBVIOUS
  <2>1. CASE UNCHANGED Adapter
    BY <2>1 DEF Adapter, store, RowsInv, OnceIn, IsReport
  <2>2. QED
    BY <2>1, IngestRows, AdapterSteps
<1>3. AdapterInv /\ RowsInv => ReportedInOrder
  BY MovesInOrder
<1>4. QED
  BY <1>1, <1>2, <1>3, InitAdapter, NextAdapter, PTL DEF Spec
=============================================================================
