--------------------------- MODULE WorkerRuntime ---------------------------
(***************************************************************************)
(* The evidence pipeline: worker_dispatch.py binds an approved blueprint   *)
(* to an approved repository, worker/service.py takes the dispatch with a  *)
(* connector artifact and perhaps GitHub evidence, worker_runtime.py       *)
(* checks that they belong together and runs the discovery.  A local       *)
(* discovery (repository_connector.py, discovery.py) hashes the working    *)
(* tree, lists it and reads it in one thread per check, all while the tree *)
(* may be edited; GitHub evidence was taken before the dispatch arrived.   *)
(***************************************************************************)
EXTENDS GitHubConnector, Functions

CONSTANTS
    Blueprints,      \* blueprint hashes
    HumanApprovals,  \* [blueprint, status]
    Approved,        \* the approved repositories: [id, connector, revisions]
    Fixture,         \* the local fixture's identity: [id, connector, revision]
    Trees,           \* what may lie in its directory: functions path -> text
    Unpinned,        \* paths under __pycache__ or ending in .pyc
    Roots,           \* the checks that the directory's own path satisfies
    MaxEdits, NoValue

ASSUME WorktreesAssumption == \A tree \in Trees : DOMAIN tree \subseteq Paths

VARIABLES
    dispatch,        \* the dispatch artifact, NoValue before create_dispatch
    disk, edits,     \* the working tree, and how often it was edited
    pinned,          \* the evidence manifest of the approved connector
    root,            \* the checks whose words occur in the absolute path
    phase,           \* "idle", "hash", "list", "scan" or "done"
    request,         \* the artifacts that came with the dispatch
    manifest,        \* the manifest being computed: [todo, files]
    found,           \* the listing the threads share
    thread,          \* thread[c]: the scan for c
    answer           \* what the client got

diskVars == <<disk, edits, pinned, root>>
scanVars == <<manifest, found, thread>>
vars == <<ghVars, dispatch, diskVars, phase, request, scanVars, answer>>

Present == DOMAIN disk

\* A file is written: it replaces the one of that path, or is a new one.
Put(tree, p, text) ==
    [q \in DOMAIN tree \cup {p} |-> IF q = p THEN text ELSE tree[q]]

\* _manifest of a tree that stands still.
ManifestOf(tree) == Restrict(tree, DOMAIN tree \ Unpinned)

\* The approved connector artifact of the fixture; the others are snapshots.
Local == [fixture |-> Fixture]

Refused == [outcome |-> "invalid_dispatch"]
Silent  == [outcome |-> "no_answer"]
PilotDenied == [outcome |-> "PILOT_DENIED"]
Completed(inventory) == [outcome |-> "DISCOVERY_COMPLETED", inventory |-> inventory]

Ids  == {e.id : e \in Approved} \cup {a.repository.id : a \in Approvals}
Pins == UNION {e.revisions : e \in Approved} \cup Revisions

Init ==
    /\ GhInit
    /\ disk \in Trees /\ pinned = ManifestOf(disk) /\ root \in Roots
    /\ edits = 0
    /\ dispatch = NoValue /\ phase = "idle" /\ request = NoValue
    /\ manifest = NoValue /\ found = {} /\ thread = NoValue
    /\ answer = NoValue

-----------------------------------------------------------------------------
(* Dispatch.                                                               *)

\* _approved_repository: one entry for the id, with this connector and revision.
ApprovedRepository(id, connector, revision) ==
    LET entries == {e \in Approved : e.id = id}
    IN  /\ Cardinality(entries) = 1
        /\ \A e \in entries : e.connector = connector /\ revision \in e.revisions

\* create_dispatch: a human approved this very blueprint.
CreateDispatch(id, connector, revision, blueprint, approval, kind) ==
    /\ dispatch = NoValue
    /\ ApprovedRepository(id, connector, revision)
    /\ approval.status = "APPROVED" /\ approval.blueprint = blueprint
    /\ dispatch' = [blueprint |-> blueprint, kind |-> kind, repository |->
                        [id |-> id, connector |-> connector, revision |-> revision]]
    /\ UNCHANGED <<ghVars, diskVars, phase, request, scanVars, answer>>

-----------------------------------------------------------------------------
(* The request: do_POST and run.                                           *)

\* _validate_binding: the evidence is about the dispatched revision.
Bound(connector) ==
    IF connector = Local
    THEN dispatch.repository = Fixture
    ELSE /\ dispatch.repository.connector = "github"
         /\ dispatch.repository.id = connector.repository.id
         /\ dispatch.repository.revision = connector.repository.revision

\* Mutant: only the repository's name is compared.
SameRepository(connector, evidence) ==
    connector # Local /\ evidence.repository.id = connector.repository.id

\* The content evidence was made from this snapshot.
MadeFrom(connector, evidence) ==
    /\ connector # Local
    /\ evidence.org = connector.org
    /\ evidence.engagement = connector.engagement
    /\ evidence.repository = connector.repository
    /\ evidence.manifest = connector.files

\* A request that do_POST or run refuses before anything is scanned.
Invalid(wellFormed, connector, evidence) ==
    \/ ~wellFormed
    \/ ~Bound(connector)
    \/ /\ dispatch.kind = "DISCOVERY" /\ evidence # NoValue
       /\ ~MadeFrom(connector, evidence)

\* _github_content_inventory, _github_snapshot_inventory: the first finding of
\* a category is its fact; without content evidence there are only gaps.
GitHubInventory(evidence) ==
    [c \in Checks |->
        LET paths == IF evidence = NoValue THEN {}
                     ELSE {f.path : f \in {g \in evidence.findings : g.category = c}}
        IN  Entry(paths, paths)]

Answer(a) == phase' = "done" /\ answer' = a /\ UNCHANGED scanVars

\* do_POST up to the point where run answers, or hands over to discovery.
Post(wellFormed, connector, evidence) ==
    /\ phase = "idle" /\ dispatch # NoValue
    /\ request' = [connector |-> connector, evidence |-> evidence]
    /\ UNCHANGED <<ghVars, dispatch, diskVars>>
    /\ \/ /\ Invalid(wellFormed, connector, evidence)
          /\ Answer(Refused)
       \/ /\ ~Invalid(wellFormed, connector, evidence)
          /\ \/ dispatch.kind = "PILOT" /\ Answer(PilotDenied)
             \/ /\ dispatch.kind = "DISCOVERY" /\ connector # Local
                /\ Answer(Completed(GitHubInventory(evidence)))
             \/ /\ dispatch.kind = "DISCOVERY" /\ connector = Local
                /\ phase' = "hash"
                /\ manifest' = [todo |-> Present \ Unpinned, files |-> <<>>]
                /\ UNCHANGED <<found, thread, answer>>

-----------------------------------------------------------------------------
(* Local discovery.                                                        *)

\* _manifest, one file: a file that was listed and is gone raises OSError,
\* which do_POST does not catch.
HashFile ==
    /\ phase = "hash" /\ manifest.todo # {}
    /\ LET p == First(manifest.todo) IN
       IF p \notin Present
       THEN Answer(Silent)
       ELSE /\ manifest' = [todo  |-> manifest.todo \ {p},
                            files |-> Put(manifest.files, p, disk[p])]
            /\ UNCHANGED <<phase, found, thread, answer>>
    /\ UNCHANGED <<ghVars, dispatch, diskVars, request>>

\* resolve_approved_fixture compares what was hashed with what was approved.
Resolve ==
    /\ phase = "hash" /\ manifest.todo = {}
    /\ IF manifest.files = pinned
       THEN phase' = "list" /\ UNCHANGED <<scanVars, answer>>
       ELSE Answer(Refused)
    /\ UNCHANGED <<ghVars, dispatch, diskVars, request>>

\* The names a check looks for; the last three look at the absolute path too.
CandidatesIn(c, files) == IF c \in root THEN files ELSE Candidates[c] \cap files

\* discover lists the tree, also what the manifest left out, and starts a
\* thread per check: _find reads every file, then the candidates are tested.
List ==
    /\ phase = "list"
    /\ phase' = "scan" /\ found' = Present
    /\ thread' = [c \in Checks |->
           [find |-> Present, todo |-> CandidatesIn(c, Present), test |-> 1,
            valid |-> {}, failed |-> FALSE]]
    /\ UNCHANGED <<ghVars, dispatch, diskVars, request, manifest, answer>>

\* Mutant: a candidate that fails its test is looked at again.
Retested(t, c, p, text) ==
    LET o == Outcome(c, t.test, text) IN
    IF o = "next" THEN [t EXCEPT !.test = @ + 1]
    ELSE IF o = "bad" THEN [t EXCEPT !.test = 1]
    ELSE [t EXCEPT !.test = 1, !.todo = @ \ {p}, !.valid = @ \cup {p}]

\* A thread after it has read text as its n-th look at candidate p.
Tested(t, c, p, text) ==
    LET o == Outcome(c, t.test, text) IN
    IF o = "next" THEN [t EXCEPT !.test = @ + 1]
    ELSE [t EXCEPT !.test = 1, !.todo = @ \ {p},
                   !.valid = IF o = "good" THEN @ \cup {p} ELSE @]

\* _scan reads one file; the text is whatever the file contains by now.
Read(c) ==
    LET t == thread[c]
        p == First(IF t.find # {} THEN t.find ELSE t.todo) IN
    /\ phase = "scan" /\ t.find \cup t.todo # {}
    /\ thread' = [thread EXCEPT ![c] =
           IF p \notin Present THEN [t EXCEPT !.find = {}, !.todo = {}, !.failed = TRUE]
           ELSE IF t.find # {} THEN [t EXCEPT !.find = @ \ {p}]
           ELSE Tested(t, c, p, disk[p])]
    /\ UNCHANGED <<ghVars, dispatch, diskVars, phase, request, manifest, found, answer>>

\* The futures are joined: one thread's exception loses the whole inventory.
Join ==
    /\ phase = "scan" /\ \A c \in Checks : thread[c].find \cup thread[c].todo = {}
    /\ Answer(IF \E c \in Checks : thread[c].failed THEN Silent
              ELSE Completed([c \in Checks |->
                       Entry(CandidatesIn(c, found), thread[c].valid)]))
    /\ UNCHANGED <<ghVars, dispatch, diskVars, request>>

-----------------------------------------------------------------------------
(* The working tree is edited while nobody looks.                          *)
Edited ==
    /\ edits < MaxEdits /\ phase # "done"
    /\ edits' = edits + 1
    /\ UNCHANGED <<ghVars, dispatch, pinned, root, phase, request, scanVars, answer>>

Write(p, text) == disk' = Put(disk, p, text) /\ disk' # disk /\ Edited

Delete(p) == p \in Present /\ disk' = Restrict(disk, Present \ {p}) /\ Edited

Work == HashFile \/ Resolve \/ List \/ Join \/ \E c \in Checks : Read(c)

Requests ==
    \/ \E id \in Ids, connector \in {"github", "local"}, revision \in Pins,
          b \in Blueprints, h \in HumanApprovals, kind \in {"PILOT", "DISCOVERY"} :
           CreateDispatch(id, connector, revision, b, h, kind)
    \/ \E wellFormed \in BOOLEAN, connector \in {Local} \cup snapshots,
          evidence \in {NoValue} \cup evidences :
           Post(wellFormed, connector, evidence)

Next ==
    \/ Requests
    \/ Work
    \/ \E tree \in Trees : \E p \in DOMAIN tree : Write(p, tree[p])
    \/ \E p \in Paths : Delete(p)
    \/ /\ phase = "idle" /\ GhNext
       /\ UNCHANGED <<dispatch, diskVars, phase, request, scanVars, answer>>

\* A request handler runs until it has answered or raised.
Spec == Init /\ [][Next]_vars /\ WF_vars(Work)

-----------------------------------------------------------------------------
Complete == phase = "done" /\ answer.outcome = "DISCOVERY_COMPLETED"

OnFixture == Complete /\ request.connector = Local
OnGitHub  == Complete /\ request.connector # Local

Cited(c) == answer.inventory[c].path

\* The artifacts a caller combines come from calls for several engagements and
\* revisions.  Whatever the combination, a fact of a completed GitHub discovery
\* cites a file of the dispatched revision's tree, and local discovery would
\* have found that file valid too.
FactsHold ==
    OnGitHub => \A c \in Checks :
        answer.inventory[c] # Gap => \E f \in TreeOf[dispatch.repository.revision] :
            f.path = Cited(c) /\ Valid(c, TextOf[f.blob])

\* When the inspection looked at the content and the tree holds no more text
\* files than it may look at, a gap means that no file of ordinary size matches.
NothingMissed ==
    OnGitHub /\ request.evidence # NoValue =>
        LET files == {f \in request.connector.files :
                         f.path \in TextSuffix /\ f.size <= MaxFileBytes} IN
        Cardinality(files) <= MaxFiles => \A c \in Checks, f \in files :
            /\ f.path \in RuleCandidates[c]
            /\ Matches(c, TextOf[f.blob])
            => answer.inventory[c] # Gap

\* The manifest is hashed before the files are listed, and the files are read
\* several times after that.  If the tree stays as it was approved, holds no
\* compiled files and lies under a path that says nothing, the request is not
\* lost and its inventory is that of the pinned tree.
Quiet == edits = 0 /\ Present \cap Unpinned = {} /\ root = {}

QuietIsPinned ==
    Quiet /\ phase = "done" /\ request.connector = Local =>
        /\ answer # Silent
        /\ OnFixture => answer.inventory = InventoryOf(pinned)

Discovering == phase \in {"hash", "list", "scan"}

\* A thread has fewer files to find or to judge, or goes on to the next test.
Nearer(c, old, new) ==
    /\ new.find \subseteq old.find /\ new.todo \subseteq old.todo
    /\ \/ new.find # old.find
       \/ new.todo # old.todo
       \/ old.test < new.test /\ new.test <= Len(Tests(c))

\* A step of a discovery: within a phase there is less left to do.
Progress ==
    \/ /\ phase = "hash" /\ phase' = "hash"
       /\ manifest'.todo \subseteq manifest.todo /\ manifest'.todo # manifest.todo
    \/ /\ phase = "scan" /\ phase' = "scan"
       /\ \E c \in Checks : /\ thread' = [thread EXCEPT ![c] = thread'[c]]
                            /\ Nearer(c, thread[c], thread'[c])
    \/ phase = "hash" /\ phase' \in {"list", "done"}
    \/ phase = "list" /\ phase' = "scan"
    \/ phase = "scan" /\ phase' = "done"

\* An edit leaves a discovery where it is, and each of its own steps brings it nearer
\* to its end: whatever the files turn into, nothing is hashed, listed or judged
\* again, and no thread undoes what another has done.
NearerTheEnd ==
    [][Discovering =>
          \/ Progress
          \/ edits' = edits + 1 /\ UNCHANGED <<phase, manifest, thread>>]_vars

\* Whatever happens to the files, a discovery that was started ends.
EveryRequestEnds == phase = "hash" ~> phase = "done"
=============================================================================
