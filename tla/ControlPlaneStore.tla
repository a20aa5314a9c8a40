------------------------- MODULE ControlPlaneStore -------------------------
(***************************************************************************)
(* ControlPlaneStore of deploygrade/engine/control_plane.py as one process *)
(* drives it: six tables and one action per public mutator.  A call that   *)
(* the code refuses with a ValueError, or SQLite with an IntegrityError,   *)
(* leaves the tables alone and is a stuttering step.  Calls that overlap,  *)
(* locks and crashes are the subject of SqliteProcesses.                   *)
(*                                                                         *)
(* A table is the set of its rows.  A content hash identifies its payload  *)
(* (SHA-256 is taken to be injective), so payloads do not appear; nor do   *)
(* columns no guard reads: vertical, approved_by, sandbox_repository.      *)
(***************************************************************************)
EXTENDS PilotStatus

CONSTANTS Organizations,  \* tenants, from the authenticated identity
          EngagementIds,  \* chosen by clients, so tenants may collide on one
          Hashes,         \* canonical_hash of the payloads clients store
          Blueprints,     \* those whose $schema is the rollout blueprint's
          ApprovalIds,    \* uuid4 drawn by approve
          JobIds,         \* uuid4 drawn by create_pilot_job
          EventIds        \* uuids chosen by workers

ASSUME BlueprintsAssumption == Blueprints \subseteq Hashes

VARIABLES organizations, engagements, artifacts, approvals, pilot_jobs,
          status,         \* the status column of pilot_jobs
          pilot_events    \* pilot_events[j]: rows of job j in insertion order

vars == <<organizations, engagements, artifacts, approvals, pilot_jobs,
          status, pilot_events>>

EngagementRow == [id : EngagementIds, org : Organizations]

ArtifactRow == [hash : Hashes, org : Organizations, eng : EngagementIds]

ApprovalRow == [id : ApprovalIds, org : Organizations, eng : EngagementIds,
                hash : Hashes, decision : {"APPROVED", "REJECTED"}]

JobRow == [id : JobIds, org : Organizations, eng : EngagementIds,
           blueprint : Hashes, approval : ApprovalIds]

EventRow == [id : EventIds, org : Organizations, blueprint : Hashes,
             type : EventType]

\* The status of a job id that has no row yet.
Absent == "ABSENT"

TypeOK ==
    /\ organizations \subseteq Organizations
    /\ engagements \subseteq EngagementRow
    /\ artifacts \subseteq ArtifactRow
    /\ approvals \subseteq ApprovalRow
    /\ pilot_jobs \subseteq JobRow
    /\ status \in [JobIds -> Status \cup {Absent}]
    /\ pilot_events \in [JobIds -> Seq(EventRow)]

Init ==
    /\ organizations = {}
    /\ engagements = {}
    /\ artifacts = {}
    /\ approvals = {}
    /\ pilot_jobs = {}
    /\ status = [j \in JobIds |-> Absent]
    /\ pilot_events = [j \in JobIds |-> <<>>]

-----------------------------------------------------------------------------
\* A row with primary key k exists in table.
HasKey(table, k) == \E row \in table : row.id = k

\* Mutant: an event id is no primary key.
AnyEvent(id) == TRUE

\* pilot_events has no row with primary key id.
NewEvent(id) ==
    \A j \in JobIds : \A i \in DOMAIN pilot_events[j] : pilot_events[j][i].id # id

CreateOrganization(o) ==
    /\ o \notin organizations
    /\ organizations' = organizations \cup {o}
    /\ UNCHANGED <<engagements, artifacts, approvals, pilot_jobs, status,
                   pilot_events>>

CreateEngagement(o, e) ==
    /\ o \in organizations
    /\ ~HasKey(engagements, e)
    /\ engagements' = engagements \cup {[id |-> e, org |-> o]}
    /\ UNCHANGED <<organizations, artifacts, approvals, pilot_jobs, status,
                   pilot_events>>

\* Mutant: the engagement is looked up by its id alone.
AnyonesEngagement(o, e) == HasKey(engagements, e)

\* _engagement: the engagement is this tenant's.
OwnsEngagement(o, e) == [id |-> e, org |-> o] \in engagements

\* Mutant: the hash is inserted without looking for it.
NotLookedUp(h) == TRUE

\* No row is stored under h yet.
Unstored(h) == \A row \in artifacts : row.hash # h

\* A hash that is already stored is returned again to its owner and refused to
\* everybody else; in neither case is a row written.
StoreArtifact(o, e, h) ==
    /\ OwnsEngagement(o, e)
    /\ Unstored(h)
    /\ artifacts' = artifacts \cup {[hash |-> h, org |-> o, eng |-> e]}
    /\ UNCHANGED <<organizations, engagements, approvals, pilot_jobs, status,
                   pilot_events>>

\* _artifact: the artifact is this tenant's, in this engagement.
OwnsArtifact(o, e, h) == [hash |-> h, org |-> o, eng |-> e] \in artifacts

Approve(o, e, h, a, decision) ==
    /\ OwnsArtifact(o, e, h)
    /\ ~HasKey(approvals, a)
    /\ approvals' = approvals \cup {[id |-> a, org |-> o, eng |-> e,
                                     hash |-> h, decision |-> decision]}
    /\ UNCHANGED <<organizations, engagements, artifacts, pilot_jobs, status,
                   pilot_events>>

\* Mutant: the decision is not looked at.
Decides(o, e, h, a) ==
    \E row \in approvals :
        row.id = a /\ row.org = o /\ row.eng = e /\ row.hash = h

\* Approval a, read within the tenant's engagement, approves exactly h.
Approves(o, e, h, a) ==
    \E row \in approvals :
        /\ row.id = a /\ row.org = o /\ row.eng = e
        /\ row.hash = h
        /\ row.decision = "APPROVED"

CreatePilotJob(o, e, h, a, j) ==
    /\ OwnsArtifact(o, e, h)
    /\ h \in Blueprints
    /\ Approves(o, e, h, a)
    /\ ~HasKey(pilot_jobs, j)
    /\ pilot_jobs' = pilot_jobs \cup {[id |-> j, org |-> o, eng |-> e,
                                       blueprint |-> h, approval |-> a]}
    /\ status' = [status EXCEPT ![j] = "QUEUED"]
    /\ UNCHANGED <<organizations, engagements, artifacts, approvals,
                   pilot_events>>

\* The job is this tenant's and runs the blueprint the callback names.
OwnsJob(o, j, h) ==
    \E row \in pilot_jobs : row.id = j /\ row.org = o /\ row.blueprint = h

RecordCallback(o, j, h, id, t) ==
    /\ OwnsJob(o, j, h)
    /\ status[j] \notin Terminal
    /\ t \in Allowed(status[j])
    /\ NewEvent(id)
    /\ pilot_events' = [pilot_events EXCEPT ![j] = Append(@,
           [id |-> id, org |-> o, blueprint |-> h, type |-> t])]
    /\ status' = [status EXCEPT ![j] = StatusAfter(@, t)]
    /\ UNCHANGED <<organizations, engagements, artifacts, approvals,
                   pilot_jobs>>

Next ==
    \E o \in Organizations :
        \/ CreateOrganization(o)
        \/ \E e \in EngagementIds :
               \/ CreateEngagement(o, e)
               \/ \E h \in Hashes :
                      \/ StoreArtifact(o, e, h)
                      \/ \E a \in ApprovalIds :
                             \/ \E d \in {"APPROVED", "REJECTED"} :
                                    Approve(o, e, h, a, d)
                             \/ \E j \in JobIds : CreatePilotJob(o, e, h, a, j)
        \/ \E j \in JobIds, h \in Hashes, id \in EventIds, t \in EventType :
               RecordCallback(o, j, h, id, t)

Spec == Init /\ [][Next]_vars

-----------------------------------------------------------------------------
\* Tenant isolation: following any reference from a row (an artifact's
\* engagement, an approval's artifact, a job's approval and blueprint, an
\* event's job) never leaves the organization and engagement of that row,
\* although every id and hash is chosen or replayed by clients.
TenantIsolation ==
    /\ \A r \in engagements : r.org \in organizations
    /\ \A r \in artifacts : [id |-> r.eng, org |-> r.org] \in engagements
    /\ \A r \in approvals :
           [hash |-> r.hash, org |-> r.org, eng |-> r.eng] \in artifacts
    /\ \A r \in pilot_jobs :
           /\ [hash |-> r.blueprint, org |-> r.org, eng |-> r.eng] \in artifacts
           /\ \A a \in approvals :
                  a.id = r.approval => a.org = r.org /\ a.eng = r.eng
    /\ \A j \in JobIds : \A i \in DOMAIN pilot_events[j] :
           \E r \in pilot_jobs :
               /\ r.id = j /\ r.org = pilot_events[j][i].org
               /\ r.blueprint = pilot_events[j][i].blueprint

\* No job without consent: the approval a job cites, the one row with that id,
\* approves exactly the blueprint the job runs, which is a rollout blueprint,
\* however often artifacts are stored again and approved or rejected anew.
ApprovedLineage ==
    \A r \in pilot_jobs :
        /\ r.blueprint \in Blueprints
        /\ \E a \in approvals : a.id = r.approval
        /\ \A a \in approvals :
               a.id = r.approval => a.hash = r.blueprint /\ a.decision = "APPROVED"

\* The rows that name a content hash, with the tenant and engagement they are in.
Uses ==
    {<<r.hash, r.org, r.eng>> : r \in artifacts \cup approvals}
        \cup {<<r.blueprint, r.org, r.eng>> : r \in pilot_jobs}

\* A content hash has one custodian: though any client may present any hash, it
\* is stored, approved and run within a single engagement of a single tenant.
HashBoundOnce ==
    \A u, v \in Uses : u[1] = v[1] => u = v

\* The status column says what the job's event rows say, and a job id without
\* a row has neither.
StatusExplained ==
    \A j \in JobIds :
        IF HasKey(pilot_jobs, j)
        THEN status[j] = StatusOf(pilot_events[j])
        ELSE status[j] = Absent /\ pilot_events[j] = <<>>

\* The types and the explanation of the status are checked together: what is
\* in the tables is a row of its type, and the column agrees with the events.
Consistent == TypeOK /\ StatusExplained

\* The store implements the ledger; its event rows are the ledger's log.
Ledger == INSTANCE PilotLedger WITH
              Jobs <- JobIds, Rows <- EventRow, log <- pilot_events

LedgerSpec == Ledger!Spec

\* A breach is fail-closed, whatever order callbacks arrive in: a job starts at
\* most once and first of all, and after a breach, a rollback or a pause it
\* records nothing but the compensating revert, and nothing at all after that.
\* LedgerSpec implies it.
FailClosed == Ledger!FailClosed

\* The only way status ever goes: forward.
Stage(s) ==
    CASE s = Absent -> 0 [] s = "QUEUED" -> 1 [] s = "RUNNING" -> 2
      [] s = "PAUSED" -> 3 [] OTHER -> 4

\* A paused job is never made to run again and a reverted one never reopened:
\* each step leaves a job's status or moves it forward, and no step removes or
\* rewrites an event row.  With the column explained, LedgerSpec implies it.
NeverResumed ==
    [][\A j \in JobIds :
          /\ status'[j] # status[j] => Stage(status[j]) < Stage(status'[j])
          /\ \A i \in DOMAIN pilot_events[j] :
                 /\ i \in DOMAIN pilot_events'[j]
                 /\ pilot_events'[j][i] = pilot_events[j][i]]_vars
=============================================================================
