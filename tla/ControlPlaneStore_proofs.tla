--------------------- MODULE ControlPlaneStore_proofs ---------------------
(***************************************************************************)
(* The store's invariants for any tenants, ids and hashes, and the proof   *)
(* that it implements the ledger.                                          *)
(***************************************************************************)
EXTENDS ControlPlaneStore, PilotStatus_proofs

-----------------------------------------------------------------------------
(* Types                                                                   *)

LEMMA StatusAfterType ==
    ASSUME NEW s \in Status, NEW t \in EventType
    PROVE  StatusAfter(s, t) \in Status
BY DEF StatusAfter, Target, Status

\* What RecordCallback does to the event rows of its job and of the others.
LEMMA AppendedRow ==
    ASSUME TypeOK, NEW o \in Organizations, NEW j \in JobIds,
           NEW h \in Hashes, NEW id \in EventIds, NEW t \in EventType,
           RecordCallback(o, j, h, id, t)
    PROVE  LET r == [id |-> id, org |-> o, blueprint |-> h, type |-> t]
           IN  /\ r \in EventRow
               /\ pilot_events' \in [JobIds -> Seq(EventRow)]
               /\ pilot_events[j] \in Seq(EventRow)
               /\ pilot_events'[j] = Append(pilot_events[j], r)
               /\ \A k \in JobIds \ {j} : pilot_events'[k] = pilot_events[k]
               /\ DOMAIN pilot_events'[j] =
                      DOMAIN pilot_events[j] \cup {Len(pilot_events[j]) + 1}
               /\ pilot_events'[j][Len(pilot_events[j]) + 1] = r
               /\ \A i \in DOMAIN pilot_events[j] :
                      pilot_events'[j][i] = pilot_events[j][i]
<1> DEFINE r == [id |-> id, org |-> o, blueprint |-> h, type |-> t]
<1>1. r \in EventRow
  BY DEF EventRow
<1>2. pilot_events \in [JobIds -> Seq(EventRow)]
  BY DEF TypeOK
<1>3. pilot_events' = [pilot_events EXCEPT ![j] = Append(pilot_events[j], r)]
  BY DEF RecordCallback
<1>4. /\ pilot_events'[j] = Append(pilot_events[j], r)
      /\ \A k \in JobIds \ {j} : pilot_events'[k] = pilot_events[k]
      /\ pilot_events' \in [JobIds -> Seq(EventRow)]
  BY <1>1, <1>2, <1>3, AppendFacts
<1>5. QED
  BY <1>1, <1>2, <1>4, AppendFacts

LEMMA NextTypeOK == TypeOK /\ [Next]_vars => TypeOK'
<1> SUFFICES ASSUME TypeOK, [Next]_vars PROVE TypeOK'
  OBVIOUS
<1> USE DEF TypeOK
<1>1. ASSUME NEW o \in Organizations, CreateOrganization(o) PROVE TypeOK'
  BY <1>1 DEF CreateOrganization
<1>2. ASSUME NEW o \in Organizations, NEW e \in EngagementIds,
             CreateEngagement(o, e)
      PROVE  TypeOK'
  BY <1>2 DEF CreateEngagement, EngagementRow
<1>3. ASSUME NEW o \in Organizations, NEW e \in EngagementIds,
             NEW h \in Hashes, StoreArtifact(o, e, h)
      PROVE  TypeOK'
  BY <1>3 DEF StoreArtifact, ArtifactRow
<1>4. ASSUME NEW o \in Organizations, NEW e \in EngagementIds,
             NEW h \in Hashes, NEW a \in ApprovalIds,
             NEW d \in {"APPROVED", "REJECTED"}, Approve(o, e, h, a, d)
      PROVE  TypeOK'
  BY <1>4 DEF Approve, ApprovalRow
<1>5. ASSUME NEW o \in Organizations, NEW e \in EngagementIds,
             NEW h \in Hashes, NEW a \in ApprovalIds, NEW j \in JobIds,
             CreatePilotJob(o, e, h, a, j)
      PROVE  TypeOK'
  <2>1. status' \in [JobIds -> Status \cup {Absent}]
    BY <1>5 DEF CreatePilotJob, Status
  <2>2. pilot_jobs' \subseteq JobRow
    BY <1>5 DEF CreatePilotJob, JobRow
  <2>3. QED
    BY <2>1, <2>2, <1>5 DEF CreatePilotJob
<1>6. ASSUME NEW o \in Organizations, NEW j \in JobIds, NEW h \in Hashes,
             NEW id \in EventIds, NEW t \in EventType,
             RecordCallback(o, j, h, id, t)
      PROVE  TypeOK'
  <2>1. status[j] \in Status
    BY <1>6 DEF RecordCallback, Allowed, Status
  <2>2. status' \in [JobIds -> Status \cup {Absent}]
    BY <2>1, <1>6, StatusAfterType DEF RecordCallback
  <2>3. pilot_events' \in [JobIds -> Seq(EventRow)]
    BY <1>6, AppendedRow
  <2>4. QED
    BY <2>2, <2>3, <1>6 DEF RecordCallback
<1>7. CASE UNCHANGED vars
  BY <1>7 DEF vars
<1>8. QED
  BY <1>1, <1>2, <1>3, <1>4, <1>5, <1>6, <1>7 DEF Next

\* Every table holds rows of its type in every reachable state.
THEOREM TypeCorrect == Spec => []TypeOK
<1>1. Init => TypeOK
  BY DEF Init, TypeOK
<1>2. QED
  BY <1>1, NextTypeOK, PTL DEF Spec

-----------------------------------------------------------------------------
(* Tenancy and consent                                                     *)

\* The primary key of artifacts.
HashKey == \A r, s \in artifacts : r.hash = s.hash => r = s

\* The rows reference each other within one tenant, and jobs only approvals of
\* their blueprint.  This is inductive only with approval ids as a primary
\* key: otherwise the row a job cites could be joined by another one.
References ==
    /\ \A x, y \in approvals : x.id = y.id => x = y
    /\ TenantIsolation
    /\ ApprovedLineage
    /\ HashKey

LEMMA CreateOrganizationReferences ==
    ASSUME TypeOK, References, NEW o \in Organizations, CreateOrganization(o)
    PROVE  References'
BY DEF CreateOrganization, References, TenantIsolation, ApprovedLineage,
       HashKey, OwnsEngagement, OwnsArtifact, OwnsJob

LEMMA CreateEngagementReferences ==
    ASSUME TypeOK, References, NEW o \in Organizations,
           NEW e \in EngagementIds, CreateEngagement(o, e)
    PROVE  References'
BY DEF CreateEngagement, References, TenantIsolation, ApprovedLineage,
       HashKey, OwnsEngagement, OwnsArtifact, OwnsJob

LEMMA StoreArtifactReferences ==
    ASSUME TypeOK, References, NEW o \in Organizations,
           NEW e \in EngagementIds, NEW h \in Hashes, StoreArtifact(o, e, h)
    PROVE  References'
<1> DEFINE new == [hash |-> h, org |-> o, eng |-> e]
<1>1. artifacts' = artifacts \cup {new} /\ \A r \in artifacts : r.hash # h
  BY DEF StoreArtifact, Unstored
<1>2. HashKey'
  BY <1>1 DEF References, HashKey
<1>3. TenantIsolation'
  BY <1>1 DEF StoreArtifact, References, TenantIsolation, OwnsEngagement,
              OwnsArtifact, OwnsJob
<1>4. QED
  BY <1>2, <1>3 DEF StoreArtifact, References, ApprovedLineage

LEMMA ApproveReferences ==
    ASSUME TypeOK, References, NEW o \in Organizations,
           NEW e \in EngagementIds, NEW h \in Hashes, NEW a \in ApprovalIds,
           NEW d \in {"APPROVED", "REJECTED"}, Approve(o, e, h, a, d)
    PROVE  References'
<1> DEFINE new == [id |-> a, org |-> o, eng |-> e, hash |-> h, decision |-> d]
<1>1. /\ approvals' = approvals \cup {new}
      /\ \A r \in approvals : r.id # new.id
      /\ OwnsArtifact(new.org, new.eng, new.hash)
  BY DEF Approve, HasKey
<1>2. \A x, y \in approvals' : x.id = y.id => x = y
  BY <1>1 DEF References
<1>3. \A r \in pilot_jobs : r.approval # new.id
  BY <1>1 DEF References, ApprovedLineage
<1>4. TenantIsolation'
  BY <1>1, <1>3 DEF Approve, References, TenantIsolation, OwnsEngagement,
                    OwnsArtifact, OwnsJob
<1>5. ApprovedLineage'
  BY <1>1, <1>3 DEF Approve, References, ApprovedLineage
<1>6. QED
  BY <1>2, <1>4, <1>5 DEF Approve, References, HashKey

LEMMA CreatePilotJobReferences ==
    ASSUME TypeOK, References, NEW o \in Organizations,
           NEW e \in EngagementIds, NEW h \in Hashes, NEW a \in ApprovalIds,
           NEW j \in JobIds, CreatePilotJob(o, e, h, a, j)
    PROVE  References'
<1> DEFINE new == [id |-> j, org |-> o, eng |-> e, blueprint |-> h,
                   approval |-> a]
<1>1. pilot_jobs' = pilot_jobs \cup {new} /\ UNCHANGED approvals
  BY DEF CreatePilotJob
<1>2. /\ \E r \in approvals : r.id = new.approval
      /\ \A r \in approvals : r.id = new.approval =>
             /\ r.org = new.org /\ r.eng = new.eng
             /\ r.hash = new.blueprint /\ r.decision = "APPROVED"
  BY DEF CreatePilotJob, Approves, References
<1>3. OwnsArtifact(new.org, new.eng, new.blueprint) /\ new.blueprint \in Blueprints
  BY DEF CreatePilotJob
<1>4. ApprovedLineage'
  BY <1>1, <1>2, <1>3 DEF References, ApprovedLineage
<1>5. TenantIsolation'
  BY <1>1, <1>2, <1>3 DEF CreatePilotJob, References, TenantIsolation,
                          OwnsEngagement, OwnsArtifact, OwnsJob
<1>6. QED
  BY <1>4, <1>5 DEF CreatePilotJob, References, HashKey

LEMMA RecordCallbackReferences ==
    ASSUME TypeOK, References, NEW o \in Organizations, NEW j \in JobIds,
           NEW h \in Hashes, NEW id \in EventIds, NEW t \in EventType,
           RecordCallback(o, j, h, id, t)
    PROVE  References'
<1>1. UNCHANGED <<organizations, engagements, artifacts, approvals, pilot_jobs>>
  BY DEF RecordCallback
<1>2. ASSUME NEW k \in JobIds, NEW i \in DOMAIN pilot_events'[k]
      PROVE  \E r \in pilot_jobs :
                 /\ r.id = k /\ r.org = pilot_events'[k][i].org
                 /\ r.blueprint = pilot_events'[k][i].blueprint
  <2>1. CASE k # j \/ i \in DOMAIN pilot_events[k]
    <3>1. i \in DOMAIN pilot_events[k] /\ pilot_events'[k][i] = pilot_events[k][i]
      BY <2>1, AppendedRow
    <3>2. QED
      BY <3>1 DEF References, TenantIsolation
  <2>2. CASE k = j /\ i \notin DOMAIN pilot_events[k]
    BY <2>2, <1>2, AppendedRow DEF RecordCallback, OwnsJob
  <2>3. QED
    BY <2>1, <2>2
<1>3. TenantIsolation'
  BY <1>1, <1>2 DEF References, TenantIsolation, OwnsEngagement,
                    OwnsArtifact, OwnsJob
<1>4. QED
  BY <1>1, <1>3 DEF References, ApprovedLineage, HashKey

LEMMA NextReferences == TypeOK /\ References /\ [Next]_vars => References'
<1> SUFFICES ASSUME TypeOK, References, [Next]_vars PROVE References'
  OBVIOUS
<1>1. CASE UNCHANGED vars
  BY <1>1 DEF vars, References, TenantIsolation, ApprovedLineage,
              HashKey, OwnsEngagement, OwnsArtifact, OwnsJob
<1>2. CASE Next
  BY <1>2, CreateOrganizationReferences, CreateEngagementReferences,
     StoreArtifactReferences, ApproveReferences, CreatePilotJobReferences,
     RecordCallbackReferences DEF Next
<1>3. QED
  BY <1>1, <1>2

\* Whatever row names a hash, the artifact is in the engagement of that row.
LEMMA ArtifactUses ==
    ASSUME TypeOK, References, NEW u \in Uses
    PROVE  [hash |-> u[1], org |-> u[2], eng |-> u[3]] \in artifacts
<1>1. ASSUME NEW r \in artifacts, u = <<r.hash, r.org, r.eng>>
      PROVE  [hash |-> u[1], org |-> u[2], eng |-> u[3]] \in artifacts
  <2>1. r = [hash |-> r.hash, org |-> r.org, eng |-> r.eng]
    BY DEF TypeOK, ArtifactRow
  <2>2. QED
    BY <1>1, <2>1
<1>2. ASSUME NEW r \in approvals, u = <<r.hash, r.org, r.eng>>
      PROVE  [hash |-> u[1], org |-> u[2], eng |-> u[3]] \in artifacts
  BY <1>2 DEF References, TenantIsolation
<1>3. ASSUME NEW r \in pilot_jobs, u = <<r.blueprint, r.org, r.eng>>
      PROVE  [hash |-> u[1], org |-> u[2], eng |-> u[3]] \in artifacts
  BY <1>3 DEF References, TenantIsolation
<1>4. QED
  BY <1>1, <1>2, <1>3 DEF Uses

LEMMA OneCustodian == TypeOK /\ References => HashBoundOnce
<1> SUFFICES ASSUME TypeOK, References, NEW u \in Uses, NEW v \in Uses,
                    u[1] = v[1]
             PROVE  u = v
  BY DEF HashBoundOnce
<1> DEFINE row(w) == [hash |-> w[1], org |-> w[2], eng |-> w[3]]
<1>1. row(u) \in artifacts /\ row(v) \in artifacts
  BY ArtifactUses
<1>2. row(u).hash = row(v).hash
  OBVIOUS
<1>3. row(u) = row(v)
  BY <1>1, <1>2 DEF References, HashKey
<1>4. u[2] = v[2] /\ u[3] = v[3]
  BY <1>3
<1>5. u = <<u[1], u[2], u[3]>> /\ v = <<v[1], v[2], v[3]>>
  BY DEF Uses
<1>6. QED
  BY <1>4, <1>5

\* Types and references together, in every reachable state.
LEMMA ReferencesHold == Spec => [](TypeOK /\ References)
<1>1. Init => References
  BY DEF Init, References, TenantIsolation, ApprovedLineage, HashKey
<1>2. QED
  BY <1>1, TypeCorrect, NextReferences, PTL DEF Spec

\* No row ever references one of another tenant.
THEOREM TenantsIsolated == Spec => []TenantIsolation
<1>1. References => TenantIsolation
  BY DEF References
<1>2. QED
  BY <1>1, ReferencesHold, PTL

\* No job runs a blueprint without an approval of exactly that blueprint, for
\* its tenant and engagement, and no later row changes what it was.
THEOREM ConsentPrecedesJobs == Spec => []ApprovedLineage
<1>1. References => ApprovedLineage
  BY DEF References
<1>2. QED
  BY <1>1, ReferencesHold, PTL

\* Content hashes are shared by all tenants, yet each has one custodian:
\* whatever rows name a hash name the same tenant and engagement.
THEOREM HashesHaveOneCustodian == Spec => []HashBoundOnce
BY ReferencesHold, OneCustodian, PTL

-----------------------------------------------------------------------------
(* The status column and the ledger                                        *)

\* The event rows of every job form a well-ordered log, and the column agrees
\* with it.  Neither is inductive alone: the column decides which event is
\* admitted, and only the log tells what the column may say.
LogInv ==
    /\ \A j \in JobIds :
           IsLog(pilot_events[j], EventRow) /\ WellOrdered(pilot_events[j])
    /\ StatusExplained

LEMMA EventRowType == \A r \in EventRow : r.type \in EventType
BY DEF EventRow

LEMMA InitLogInv == Init => LogInv
BY EmptyLog, EventRowType DEF Init, LogInv, StatusExplained, HasKey

LEMMA CreatePilotJobLogInv ==
    ASSUME TypeOK, LogInv, NEW o \in Organizations, NEW e \in EngagementIds,
           NEW h \in Hashes, NEW a \in ApprovalIds, NEW j \in JobIds,
           CreatePilotJob(o, e, h, a, j)
    PROVE  LogInv'
<1>1. /\ UNCHANGED pilot_events
      /\ status'[j] = "QUEUED"
      /\ \A k \in JobIds \ {j} : status'[k] = status[k]
  BY DEF CreatePilotJob, TypeOK
<1>2. pilot_events[j] = <<>>
  BY DEF CreatePilotJob, LogInv, StatusExplained
<1>3. status'[j] = StatusOf(pilot_events[j])
  BY <1>1, <1>2, EmptyLog, EventRowType
<1>4. \A k \in JobIds : HasKey(pilot_jobs, k)' <=> HasKey(pilot_jobs, k) \/ k = j
  <2> DEFINE new == [id |-> j, org |-> o, eng |-> e, blueprint |-> h,
                     approval |-> a]
  <2>1. pilot_jobs' = pilot_jobs \cup {new} /\ new.id = j
    BY DEF CreatePilotJob
  <2>2. QED
    BY <2>1 DEF HasKey
<1>5. QED
  BY <1>1, <1>3, <1>4 DEF LogInv, StatusExplained

\* In a state that satisfies the invariant, a callback is admitted by the log.
LEMMA RecordCallbackAdmitted ==
    ASSUME LogInv, NEW o \in Organizations, NEW j \in JobIds,
           NEW h \in Hashes, NEW id \in EventIds, NEW t \in EventType,
           RecordCallback(o, j, h, id, t)
    PROVE  /\ HasKey(pilot_jobs, j)
           /\ status[j] = StatusOf(pilot_events[j])
           /\ t \in Allowed(StatusOf(pilot_events[j]))
BY DEF RecordCallback, OwnsJob, HasKey, LogInv, StatusExplained

LEMMA RecordCallbackLogInv ==
    ASSUME TypeOK, LogInv, NEW o \in Organizations, NEW j \in JobIds,
           NEW h \in Hashes, NEW id \in EventIds, NEW t \in EventType,
           RecordCallback(o, j, h, id, t)
    PROVE  LogInv'
<1> DEFINE r == [id |-> id, org |-> o, blueprint |-> h, type |-> t]
<1>1. /\ UNCHANGED pilot_jobs
      /\ status'[j] = StatusAfter(status[j], r.type)
      /\ \A k \in JobIds \ {j} : status'[k] = status[k]
  BY DEF RecordCallback, TypeOK
<1>2. /\ IsLog(pilot_events'[j], EventRow)
      /\ WellOrdered(pilot_events'[j])
      /\ StatusOf(pilot_events'[j]) = StatusAfter(StatusOf(pilot_events[j]), r.type)
  <2>1. r \in EventRow /\ pilot_events'[j] = Append(pilot_events[j], r)
    BY AppendedRow
  <2>2. IsLog(pilot_events[j], EventRow) /\ WellOrdered(pilot_events[j])
    BY DEF LogInv
  <2>3. r.type \in Allowed(StatusOf(pilot_events[j]))
    BY RecordCallbackAdmitted
  <2>4. QED
    BY <2>1, <2>2, <2>3, StatusOfAppend, WellOrderedAppend
<1>3. \A k \in JobIds \ {j} : pilot_events'[k] = pilot_events[k]
  BY AppendedRow
<1>4. status'[j] = StatusOf(pilot_events'[j]) /\ HasKey(pilot_jobs', j)
  BY <1>1, <1>2, RecordCallbackAdmitted
<1>5. QED
  BY <1>1, <1>2, <1>3, <1>4 DEF LogInv, StatusExplained, HasKey

LEMMA NextLogInv == TypeOK /\ LogInv /\ [Next]_vars => LogInv'
<1> SUFFICES ASSUME TypeOK, LogInv, [Next]_vars PROVE LogInv'
  OBVIOUS
<1>1. ASSUME UNCHANGED <<pilot_jobs, status, pilot_events>> PROVE LogInv'
  BY <1>1 DEF LogInv, StatusExplained, HasKey
<1>2. CASE Next
  BY <1>1, <1>2, CreatePilotJobLogInv, RecordCallbackLogInv
     DEF Next, CreateOrganization, CreateEngagement, StoreArtifact, Approve
<1>3. CASE UNCHANGED vars
  BY <1>1, <1>3 DEF vars
<1>4. QED
  BY <1>2, <1>3

\* The status column is never anything but what the job's event rows amount to.
THEOREM StatusIsExplained == Spec => []StatusExplained
<1>1. LogInv => StatusExplained
  BY DEF LogInv
<1>2. QED
  BY <1>1, InitLogInv, NextLogInv, TypeCorrect, PTL DEF Spec

\* What is in the tables is of its type and consistent with the event rows.
THEOREM TablesConsistent == Spec => []Consistent
<1>1. TypeOK /\ StatusExplained => Consistent
  BY DEF Consistent
<1>2. QED
  BY <1>1, TypeCorrect, StatusIsExplained, PTL

\* The ledger's tables of statuses and events are the store's.
LEMMA SameTables ==
    /\ \A s : Ledger!Allowed(s) = Allowed(s)
    /\ \A rows : Ledger!StatusOf(rows) = StatusOf(rows)
    /\ \A rows : Ledger!WellOrdered(rows) <=> WellOrdered(rows)
BY Zenon DEF Ledger!Allowed, Ledger!Pausing, Ledger!StatusOf, Ledger!MovesIn,
       Ledger!LastMove, Ledger!Target, Ledger!Moves, Allowed, Pausing,
       StatusOf, MovesIn, LastMove, Target, Moves, Ledger!WellOrdered,
       WellOrdered

\* A job that has breached or paused records nothing but its compensation.
THEOREM JobsFailClosed == Spec => []FailClosed
<1>1. LogInv => FailClosed
  BY SameTables DEF LogInv, FailClosed, Ledger!FailClosed
<1>2. QED
  BY <1>1, InitLogInv, NextLogInv, TypeCorrect, PTL DEF Spec

\* The store implements the ledger: creating rows of the other tables is
\* invisible to it, and recording a callback is accepting an event.
THEOREM ImplementsLedger == Spec => LedgerSpec
<1>1. Init => Ledger!Init
  BY DEF Init, Ledger!Init
<1>2. ASSUME TypeOK, LogInv, [Next]_vars
      PROVE  Ledger!Next \/ UNCHANGED pilot_events
  <2>1. ASSUME NEW o \in Organizations, NEW j \in JobIds, NEW h \in Hashes,
               NEW id \in EventIds, NEW t \in EventType,
               RecordCallback(o, j, h, id, t)
        PROVE  Ledger!Next
    <3> DEFINE r == [id |-> id, org |-> o, blueprint |-> h, type |-> t]
    <3>1. r \in EventRow
      BY DEF EventRow
    <3>2. Ledger!Fresh(r.id)
      BY <2>1 DEF RecordCallback, NewEvent, Ledger!Fresh
    <3>3. r.type \in Ledger!Allowed(Ledger!StatusOf(pilot_events[j]))
      <4>1. Ledger!Allowed(Ledger!StatusOf(pilot_events[j]))
                = Allowed(StatusOf(pilot_events[j]))
        BY SameTables
      <4>2. QED
        BY <1>2, <2>1, <4>1, RecordCallbackAdmitted
    <3>4. pilot_events' = [pilot_events EXCEPT ![j] = Append(@, r)]
      BY <2>1 DEF RecordCallback
    <3>5. QED
      BY <3>1, <3>2, <3>3, <3>4 DEF Ledger!Next, Ledger!Accept
  <2>2. CASE UNCHANGED vars
    BY <2>2 DEF vars
  <2>3. QED
    BY <1>2, <2>1, <2>2 DEF Next, CreateOrganization, CreateEngagement,
       StoreArtifact, Approve, CreatePilotJob
<1>3. QED
  BY <1>1, <1>2, TypeCorrect, InitLogInv, NextLogInv, PTL
     DEF Spec, LedgerSpec, Ledger!Spec

-----------------------------------------------------------------------------
\* The body of NeverResumed.
Advances ==
    \A j \in JobIds :
        /\ status'[j] # status[j] => Stage(status[j]) < Stage(status'[j])
        /\ \A i \in DOMAIN pilot_events[j] :
               /\ i \in DOMAIN pilot_events'[j]
               /\ pilot_events'[j][i] = pilot_events[j][i]

\* No step takes a job back, out of PAUSED or out of REVERTED in particular,
\* or removes or rewrites one of its event rows.
THEOREM JobsOnlyAdvance == Spec => NeverResumed
<1>1. ASSUME TypeOK, LogInv, Next PROVE Advances
  <2>1. ASSUME UNCHANGED <<status, pilot_events>> PROVE Advances
    BY <2>1 DEF Advances
  <2>2. ASSUME NEW o \in Organizations, NEW e \in EngagementIds,
               NEW h \in Hashes, NEW a \in ApprovalIds, NEW j \in JobIds,
               CreatePilotJob(o, e, h, a, j)
        PROVE  Advances
    <3>1. status[j] = Absent
      BY <1>1, <2>2 DEF CreatePilotJob, LogInv, StatusExplained
    <3>2. /\ status'[j] = "QUEUED"
          /\ \A k \in JobIds \ {j} : status'[k] = status[k]
          /\ UNCHANGED pilot_events
      BY <1>1, <2>2 DEF CreatePilotJob, TypeOK
    <3>3. Stage(Absent) = 0 /\ Stage("QUEUED") = 1
      BY DEF Stage, Absent
    <3>4. QED
      BY <3>1, <3>2, <3>3 DEF Advances
  <2>3. ASSUME NEW o \in Organizations, NEW j \in JobIds, NEW h \in Hashes,
               NEW id \in EventIds, NEW t \in EventType,
               RecordCallback(o, j, h, id, t)
        PROVE  Advances
    <3>1. \A k \in JobIds : \A i \in DOMAIN pilot_events[k] :
              /\ i \in DOMAIN pilot_events'[k]
              /\ pilot_events'[k][i] = pilot_events[k][i]
      BY <1>1, <2>3, AppendedRow
    <3>2. /\ status'[j] = StatusAfter(status[j], t)
          /\ \A k \in JobIds \ {j} : status'[k] = status[k]
          /\ t \in Allowed(status[j])
      BY <1>1, <2>3 DEF RecordCallback, TypeOK
    <3>3. status'[j] = status[j] \/ Stage(status[j]) < Stage(status'[j])
      <4>1. /\ Stage("QUEUED") = 1 /\ Stage("RUNNING") = 2
            /\ Stage("PAUSED") = 3 /\ Stage("REVERTED") = 4
        BY DEF Stage, Absent
      <4>2. CASE status[j] = "QUEUED"
        <5>1. status'[j] \in {"RUNNING", "PAUSED"}
          BY <3>2, <4>2 DEF Allowed, Pausing, StatusAfter, Moves, Target
        <5>2. QED
          BY <4>1, <4>2, <5>1
      <4>3. CASE status[j] = "RUNNING"
        <5>1. status'[j] \in {"RUNNING", "PAUSED", "REVERTED"}
          BY <3>2, <4>3 DEF Allowed, Pausing, StatusAfter, Moves, Target
        <5>2. QED
          BY <4>1, <4>3, <5>1
      <4>4. CASE status[j] = "PAUSED"
        <5>1. status'[j] = "REVERTED"
          BY <3>2, <4>4 DEF Allowed, Pausing, StatusAfter, Moves, Target
        <5>2. QED
          BY <4>1, <4>4, <5>1
      <4>5. QED
        BY <3>2, <4>2, <4>3, <4>4 DEF Allowed
    <3>4. QED
      BY <3>1, <3>2, <3>3 DEF Advances
  <2>4. QED
    BY <1>1, <2>1, <2>2, <2>3 DEF Next, CreateOrganization, CreateEngagement,
       StoreArtifact, Approve
<1>2. TypeOK /\ LogInv /\ [Next]_vars => [Advances]_vars
  BY <1>1
<1>3. QED
  BY <1>2, TypeCorrect, InitLogInv, NextLogInv, PTL
     DEF Spec, NeverResumed, Advances
-----------------------------------------------------------------------------
(* What the ledger promises                                                *)

LEMMA LedgerNext ==
    ASSUME Promises(pilot_events, JobIds, EventRow), [Ledger!Next]_pilot_events
    PROVE  Promises(pilot_events, JobIds, EventRow)'
<1>1. CASE UNCHANGED pilot_events
  BY <1>1 DEF Promises, OnceIn
<1>2. ASSUME NEW j \in JobIds, NEW r \in EventRow, Ledger!Accept(j, r)
      PROVE  Promises(pilot_events', JobIds, EventRow)
  <2>1. /\ pilot_events \in [JobIds -> Seq(EventRow)]
        /\ pilot_events' = [pilot_events EXCEPT ![j] = Append(@, r)]
    BY <1>2 DEF Ledger!Accept, Promises
  <2>2. /\ pilot_events' \in [JobIds -> Seq(EventRow)]
        /\ IsAppended(pilot_events', pilot_events, JobIds, j, r)
    BY <2>1 DEF IsAppended
  <2>3. \A k \in JobIds : \A i \in DOMAIN pilot_events[k] :
            pilot_events[k][i].id # r.id
    BY <1>2 DEF Ledger!Accept, Ledger!Fresh
  <2>4. r.type \in Allowed(StatusOf(pilot_events[j]))
    BY <1>2, SameTables DEF Ledger!Accept
  <2>5. QED
    BY <2>2, <2>3, <2>4, PromisesAccept
<1>3. CASE Ledger!Next
  <2>1. Promises(pilot_events', JobIds, EventRow)
    BY <1>2, <1>3 DEF Ledger!Next
  <2>2. QED
    BY <2>1 DEF Promises, OnceIn
<1>4. QED
  BY <1>1, <1>3

\* The ledger is enough: whatever implements it records a redelivered callback
\* once, and lets nothing follow a breach but the compensation.
THEOREM LedgerPromises ==
    LedgerSpec => [](Ledger!RecordedOnce /\ Ledger!FailClosed)
<1>1. Ledger!Init => Promises(pilot_events, JobIds, EventRow)
  BY PromisesInit, EventRowType DEF Ledger!Init
<1>2. Promises(pilot_events, JobIds, EventRow)
          => Ledger!RecordedOnce /\ Ledger!FailClosed
  BY SameTables DEF Promises, OnceIn, Ledger!RecordedOnce, Ledger!FailClosed
<1>3. QED
  BY <1>1, <1>2, LedgerNext, PTL DEF LedgerSpec, Ledger!Spec
=============================================================================
