------------------------ MODULE WorkerRuntime_proofs ------------------------
(***************************************************************************)
(* For any approvals, trees, contents, bounds and working trees: the facts *)
(* of a discovery on GitHub hold of the dispatched revision, its gaps do   *)
(* not hide a file, and a local discovery of a tree that nobody edits is   *)
(* that of what was pinned, in whatever order its threads read.            *)
(***************************************************************************)
EXTENDS WorkerRuntime, FiniteSetTheorems, WellFoundedInduction, TLAPS

\* A set of paths that is not empty has a first one.
LEMMA FirstOfPaths ==
    ASSUME NEW S, S \subseteq Nat, S # {}
    PROVE  First(S) \in S
<1>1. PICK p \in S : \A q \in S : ~(<<q, p>> \in OpToRel(<, Nat))
  BY NatLessThanWellFounded, WFMin, Zenon
<1>2. ASSUME NEW q \in S PROVE p <= q
  <2>1. p \in Nat /\ q \in Nat
    OBVIOUS
  <2>2. q < p => <<q, p>> \in OpToRel(<, Nat)
    BY <2>1, Zenon DEF OpToRel
  <2>3. ~(q < p)
    BY <1>1, <2>2
  <2>4. QED
    BY <2>1, <2>3
<1>3. QED
  BY <1>2 DEF First

-----------------------------------------------------------------------------
(* What the connector makes.                                               *)

\* A snapshot lists blobs of the revision it names.
GenuineSnapshot(s) ==
    /\ s.repository.revision \in Revisions
    /\ s.files \subseteq TreeOf[s.repository.revision]

\* A finding is about a file of the manifest that has the marks.
GenuineEvidence(e) ==
    /\ e.repository.revision \in Revisions
    /\ e.manifest \subseteq TreeOf[e.repository.revision]
    /\ \A g \in e.findings :
           \E f \in e.manifest : g.path = f.path /\ Matches(g.category, TextOf[f.blob])

Genuine ==
    /\ \A s \in snapshots : GenuineSnapshot(s)
    /\ \A e \in evidences : GenuineEvidence(e)

LEMMA SnapshotGenuine ==
    ASSUME Genuine, NEW a \in Approvals, NEW commit \in Revisions, NEW tree \in Revisions,
           NEW truncated \in BOOLEAN, Snapshot(a, commit, tree, truncated)
    PROVE  Genuine'
<1> DEFINE files == {f \in TreeOf[tree] : f.type = "blob"}
           s == [org |-> a.org, engagement |-> a.engagement,
                 repository |-> a.repository, files |-> files]
<1>1. snapshots' = snapshots \cup {s} /\ evidences' = evidences
  BY DEF Snapshot
<1>2. a.repository.revision = tree
  BY DEF Snapshot, AnswersFor
<1>3. GenuineSnapshot(s)
  BY <1>2 DEF GenuineSnapshot
<1>4. QED
  BY <1>1, <1>3 DEF Genuine

LEMMA EvidenceGenuine ==
    ASSUME Genuine, NEW s \in snapshots, NEW blobs, ContentEvidence(s, blobs)
    PROVE  Genuine'
<1> DEFINE selected == Eligible(s.files)
           findings == UNION {{Finding(c, f) : f \in Hits(c, selected, blobs)} :
                              c \in Checks}
           e == [org |-> s.org, engagement |-> s.engagement,
                 repository |-> s.repository, manifest |-> s.files,
                 findings |-> findings]
<1>1. /\ evidences' = evidences \cup {e} /\ snapshots' = snapshots
      /\ \A f \in selected : blobs[f.path] = f.blob
  BY DEF ContentEvidence
<1>2. selected \subseteq s.files
  BY DEF Eligible
<1>3. GenuineSnapshot(s)
  BY DEF Genuine
<1>4. ASSUME NEW g \in findings
      PROVE  \E f \in s.files : g.path = f.path /\ Matches(g.category, TextOf[f.blob])
  <2>1. PICK c \in Checks : \E f \in Hits(c, selected, blobs) : g = Finding(c, f)
    BY <1>4
  <2>2. PICK f \in Hits(c, selected, blobs) : g = Finding(c, f)
    BY <2>1
  <2>3. /\ f \in s.files /\ Matches(c, TextOf[f.blob])
        /\ g.path = f.path /\ g.category = c
    BY <1>1, <1>2, <2>2 DEF Hits, Finding
  <2>4. QED
    BY <2>3
<1>5. GenuineEvidence(e)
  BY <1>3, <1>4 DEF GenuineEvidence, GenuineSnapshot
<1>6. QED
  BY <1>1, <1>5 DEF Genuine

LEMMA NextGenuine == Genuine /\ [Next]_vars => Genuine'
<1> SUFFICES ASSUME Genuine, [Next]_vars PROVE Genuine'
  OBVIOUS
<1>1. CASE GhNext
  BY <1>1, SnapshotGenuine, EvidenceGenuine DEF GhNext
<1>2. CASE UNCHANGED ghVars
  BY <1>2 DEF Genuine, ghVars
<1>3. GhNext \/ UNCHANGED ghVars
  BY DEF Next, Requests, Work, CreateDispatch, Post, HashFile, Resolve, List,
         Join, Read, Write, Delete, Edited, vars
<1>4. QED
  BY <1>1, <1>2, <1>3

-----------------------------------------------------------------------------
(* What a request makes of it.                                             *)

\* A request is answered under the dispatch it came with, and only a discovery
\* on the fixture is ever hashed, listed and scanned.
Handled ==
    /\ phase # "idle" => dispatch # NoValue
    /\ phase \in {"hash", "list", "scan"} => request.connector = Local

\* The inventory made of evidence that belongs to the dispatched revision.
LEMMA InventoryHolds ==
    ASSUME Genuine, NEW s \in snapshots, NEW e \in {NoValue} \cup evidences,
           e # NoValue => MadeFrom(s, e),
           NEW c \in Checks, GitHubInventory(e)[c] # Gap
    PROVE  \E f \in TreeOf[s.repository.revision] :
               f.path = GitHubInventory(e)[c].path /\ Valid(c, TextOf[f.blob])
<1> DEFINE found_ == {g \in e.findings : g.category = c}
           paths == IF e = NoValue THEN {} ELSE {g.path : g \in found_}
<1>1. GitHubInventory(e)[c] = Entry(paths, paths)
  BY DEF GitHubInventory
<1>2. /\ paths # {} /\ e # NoValue
      /\ GitHubInventory(e)[c].path = First(paths)
  BY <1>1 DEF Entry, Fact
<1>3. GenuineEvidence(e) /\ e.repository = s.repository
  BY <1>2 DEF Genuine, MadeFrom
<1>4. \A g \in found_ : \E f \in TreeOf[s.repository.revision] :
          /\ f.path = g.path /\ f.path \in Paths
          /\ Matches(c, TextOf[f.blob])
  BY <1>3, TreesAssumption DEF GenuineEvidence, Revisions
<1>5. paths \subseteq Nat
  BY <1>2, <1>4, RulesAssumption
<1>6. First(paths) \in paths
  BY <1>2, <1>5, FirstOfPaths
<1>7. PICK g \in found_ : g.path = First(paths)
  BY <1>2, <1>6
<1>8. QED
  BY <1>2, <1>4, <1>7 DEF Matches

LEMMA PostHolds ==
    ASSUME Genuine, NEW wellFormed \in BOOLEAN, NEW s \in {Local} \cup snapshots,
           NEW e \in {NoValue} \cup evidences, Post(wellFormed, s, e)
    PROVE  Handled' /\ FactsHold'
<1>1. request' = [connector |-> s, evidence |-> e] /\ dispatch' = dispatch
      /\ dispatch # NoValue
  BY DEF Post
<1>2. Handled'
  BY <1>1 DEF Post, Handled, Answer
<1>3. ASSUME OnGitHub', NEW c \in Checks, answer'.inventory[c] # Gap
      PROVE  \E f \in TreeOf[dispatch'.repository.revision] :
                 f.path = Cited(c)' /\ Valid(c, TextOf[f.blob])
  <2>1. s # Local /\ s \in snapshots /\ phase' = "done"
        /\ answer'.outcome = "DISCOVERY_COMPLETED"
    BY <1>1, <1>3 DEF OnGitHub, Complete
  <2>2. /\ ~Invalid(wellFormed, s, e) /\ dispatch.kind = "DISCOVERY"
        /\ answer' = Completed(GitHubInventory(e))
    BY <2>1 DEF Post, Answer, Refused, PilotDenied
  <2>3. e # NoValue => MadeFrom(s, e)
    BY <2>2 DEF Invalid
  <2>4. dispatch.repository.revision = s.repository.revision
    BY <2>1, <2>2 DEF Invalid, Bound
  <2>5. answer'.inventory = GitHubInventory(e)
    BY <2>2 DEF Completed
  <2>6. QED
    BY <1>1, <1>3, <2>1, <2>3, <2>4, <2>5, InventoryHolds DEF Cited
<1>4. QED
  BY <1>2, <1>3 DEF FactsHold

\* The steps of a local discovery, and those that no request sees.
LEMMA OtherSteps ==
    ASSUME Handled, FactsHold, [Next]_vars,
           ~\E wellFormed \in BOOLEAN, s \in {Local} \cup snapshots,
               e \in {NoValue} \cup evidences : Post(wellFormed, s, e)
    PROVE  Handled' /\ FactsHold'
<1>1. CASE Work
  <2>1. /\ phase \in {"hash", "list", "scan"}
        /\ request' = request /\ dispatch' = dispatch
        /\ phase' \in {"hash", "list", "scan", "done"}
    BY <1>1 DEF Work, HashFile, Resolve, List, Join, Read, Answer
  <2>2. ~OnGitHub'
    BY <2>1 DEF OnGitHub, Handled
  <2>3. QED
    BY <2>1, <2>2 DEF Handled, FactsHold
<1>2. CASE dispatch = NoValue /\ UNCHANGED <<phase, request, answer>>
  <2>1. phase' = "idle"
    BY <1>2 DEF Handled
  <2>2. QED
    BY <2>1 DEF Handled, FactsHold, OnGitHub, Complete
<1>3. CASE UNCHANGED <<dispatch, phase, request, answer>>
  BY <1>3 DEF Handled, FactsHold, OnGitHub, Complete, Cited
<1>4. \/ Work
      \/ dispatch = NoValue /\ UNCHANGED <<phase, request, answer>>
      \/ UNCHANGED <<dispatch, phase, request, answer>>
  BY DEF Next, Requests, CreateDispatch, Write, Delete, Edited, vars
<1>5. QED
  BY <1>1, <1>2, <1>3, <1>4

\* Whatever artifacts a caller combines, and whatever the API answered when
\* they were made, a fact of a completed discovery on GitHub cites a file of
\* the dispatched revision that has the marks of its category.
THEOREM FactsAlwaysHold == Spec => []FactsHold
<1>1. Init => Genuine /\ Handled /\ FactsHold
  BY DEF Init, GhInit, Genuine, Handled, FactsHold, OnGitHub, Complete
<1>2. ASSUME Genuine, Handled, FactsHold, [Next]_vars
      PROVE  Genuine' /\ Handled' /\ FactsHold'
  BY <1>2, NextGenuine, PostHolds, OtherSteps
<1>3. QED
  BY <1>1, <1>2, PTL DEF Spec

-----------------------------------------------------------------------------
(* What an inspection does not miss.                                       *)

\* The files an inspection would look at if it had time for all of them.
Small(files) == {f \in files : f.path \in TextSuffix /\ f.size <= MaxFileBytes}

\* If there are few enough, every rule has been tried on each.
ThoroughEvidence(e) ==
    Cardinality(Small(e.manifest)) <= MaxFiles =>
        \A c \in Checks, f \in Small(e.manifest) :
            f.path \in RuleCandidates[c] /\ Matches(c, TextOf[f.blob]) =>
                \E g \in e.findings : g.category = c /\ g.path = f.path

Thorough == \A e \in evidences : ThoroughEvidence(e)

\* The limit on the number of files cuts nothing off that is within it: fewer
\* files than there are come before any of them.
LEMMA AllEligible ==
    ASSUME NEW files, IsFiniteSet(files), \A f \in files : f.path \in Nat,
           Cardinality(Small(files)) <= MaxFiles
    PROVE  Eligible(files) = Small(files)
<1>1. /\ IsFiniteSet(Small(files))
      /\ Cardinality(Small(files)) \in Nat
  BY FS_Subset, FS_CardinalityType DEF Small
<1>2. ASSUME NEW f \in Small(files)
      PROVE  Cardinality({g \in Small(files) : g.path < f.path}) < MaxFiles
  <2> DEFINE earlier == {g \in Small(files) : g.path < f.path}
  <2>1. f \in files /\ f.path \in Nat
    BY DEF Small
  <2>2. f \notin earlier
    BY <2>1
  <2>3. /\ IsFiniteSet(earlier)
        /\ Cardinality(earlier) <= Cardinality(Small(files))
        /\ Cardinality(earlier) # Cardinality(Small(files))
    BY <1>1, <1>2, <2>2, FS_Subset
  <2>4. Cardinality(earlier) \in Nat
    BY <2>3, FS_CardinalityType
  <2> HIDE DEF earlier
  <2>5. Cardinality(earlier) < MaxFiles
    BY <1>1, <2>3, <2>4, TreesAssumption
  <2>6. QED
    BY <2>5 DEF earlier
<1>3. Eligible(files) = {f \in Small(files) :
          Cardinality({g \in Small(files) : g.path < f.path}) < MaxFiles}
  BY DEF Eligible, Small
<1>4. QED
  BY <1>2, <1>3

LEMMA EvidenceThorough ==
    ASSUME Genuine, Thorough, NEW s \in snapshots, NEW blobs,
           ContentEvidence(s, blobs)
    PROVE  Thorough'
<1> DEFINE selected == Eligible(s.files)
           findings == UNION {{Finding(c, f) : f \in Hits(c, selected, blobs)} :
                              c \in Checks}
           e == [org |-> s.org, engagement |-> s.engagement,
                 repository |-> s.repository, manifest |-> s.files,
                 findings |-> findings]
<1>1. /\ evidences' = evidences \cup {e}
      /\ \A f \in selected : blobs[f.path] = f.blob
  BY DEF ContentEvidence
<1>2. /\ IsFiniteSet(s.files)
      /\ \A f \in s.files : f.path \in Nat
  <2>1. PICK revision \in Revisions : s.files \subseteq TreeOf[revision]
    BY DEF Genuine, GenuineSnapshot
  <2>2. /\ IsFiniteSet(TreeOf[revision])
        /\ \A f \in TreeOf[revision] : f.path \in Paths
    BY TreesAssumption DEF Revisions
  <2>3. QED
    BY <2>1, <2>2, FS_Subset, RulesAssumption
<1>3. ASSUME Cardinality(Small(s.files)) <= MaxFiles, NEW c \in Checks,
             NEW f \in Small(s.files), f.path \in RuleCandidates[c],
             Matches(c, TextOf[f.blob])
      PROVE  \E g \in findings : g.category = c /\ g.path = f.path
  <2>1. f \in selected
    BY <1>2, <1>3, AllEligible
  <2>2. f \in Hits(c, selected, blobs)
    BY <1>1, <1>3, <2>1 DEF Hits
  <2>3. /\ Finding(c, f) \in findings
        /\ Finding(c, f).category = c
        /\ Finding(c, f).path = f.path
    BY <2>2 DEF Finding
  <2>4. QED
    BY <2>3
<1>4. e.manifest = s.files /\ e.findings = findings
  OBVIOUS
<1> HIDE DEF e, findings
<1>5. ThoroughEvidence(e)
  BY <1>3, <1>4 DEF ThoroughEvidence
<1>6. QED
  BY <1>1, <1>5 DEF Thorough

LEMMA NextThorough == Genuine /\ Thorough /\ [Next]_vars => Thorough'
<1> SUFFICES ASSUME Genuine, Thorough, [Next]_vars PROVE Thorough'
  OBVIOUS
<1>1. CASE GhNext
  BY <1>1, EvidenceThorough DEF GhNext, Snapshot, Thorough
<1>2. CASE UNCHANGED ghVars
  BY <1>2 DEF Thorough, ghVars
<1>3. GhNext \/ UNCHANGED ghVars
  BY DEF Next, Requests, Work, CreateDispatch, Post, HashFile, Resolve, List,
         Join, Read, Write, Delete, Edited, vars
<1>4. QED
  BY <1>1, <1>2, <1>3

LEMMA PostMisses ==
    ASSUME Thorough, NEW wellFormed \in BOOLEAN, NEW s \in {Local} \cup snapshots,
           NEW e \in {NoValue} \cup evidences, Post(wellFormed, s, e)
    PROVE  NothingMissed'
<1> SUFFICES ASSUME OnGitHub', e # NoValue,
                    Cardinality(Small(s.files)) <= MaxFiles,
                    NEW c \in Checks, NEW f \in Small(s.files),
                    f.path \in RuleCandidates[c], Matches(c, TextOf[f.blob])
             PROVE  answer'.inventory[c] # Gap
  <2>1. request'.connector = s /\ request'.evidence = e
    BY DEF Post
  <2>2. QED
    BY <2>1 DEF NothingMissed, Small
<1>1. s # Local /\ phase' = "done" /\ answer'.outcome = "DISCOVERY_COMPLETED"
  BY DEF OnGitHub, Complete, Post
<1>2. /\ ~Invalid(wellFormed, s, e) /\ dispatch.kind = "DISCOVERY"
      /\ answer' = Completed(GitHubInventory(e))
  BY <1>1 DEF Post, Answer, Refused, PilotDenied
<1>3. e \in evidences /\ e.manifest = s.files
  BY <1>2 DEF Invalid, MadeFrom
<1>4. PICK g \in e.findings : g.category = c /\ g.path = f.path
  BY <1>3 DEF Thorough, ThoroughEvidence
<1> DEFINE paths == {x.path : x \in {y \in e.findings : y.category = c}}
<1>5. paths # {}
  BY <1>4
<1>6. GitHubInventory(e)[c] = Entry(paths, paths)
  BY DEF GitHubInventory
<1>7. Entry(paths, paths) # Gap
  BY <1>5 DEF Entry, Fact, Gap
<1>8. QED
  BY <1>2, <1>6, <1>7 DEF Completed

\* A discovery on GitHub is answered with the request, not afterwards.
LEMMA OtherMisses ==
    ASSUME Handled, NothingMissed, [Next]_vars,
           ~\E wellFormed \in BOOLEAN, s \in {Local} \cup snapshots,
               e \in {NoValue} \cup evidences : Post(wellFormed, s, e)
    PROVE  NothingMissed'
<1>1. CASE Work
  <2>1. /\ phase \in {"hash", "list", "scan"}
        /\ request' = request
    BY <1>1 DEF Work, HashFile, Resolve, List, Join, Read, Answer
  <2>2. QED
    BY <2>1 DEF NothingMissed, OnGitHub, Handled
<1>2. CASE UNCHANGED <<phase, request, answer>>
  BY <1>2 DEF NothingMissed, OnGitHub, Complete
<1>3. Work \/ UNCHANGED <<phase, request, answer>>
  BY DEF Next, Requests, CreateDispatch, Write, Delete, Edited, vars
<1>4. QED
  BY <1>1, <1>2, <1>3

\* Whatever is in the tree and whatever artifacts a caller combines, a gap in
\* an inventory that was made of content says that no file of ordinary size
\* matches, as long as there were no more of these than may be looked at.
THEOREM NoFileIsMissed == Spec => []NothingMissed
<1> DEFINE MissInv == Genuine /\ Thorough /\ Handled /\ FactsHold /\ NothingMissed
<1>1. Init => MissInv
  BY DEF Init, GhInit, Genuine, Thorough, Handled, FactsHold, NothingMissed,
         OnGitHub, Complete
<1>2. ASSUME MissInv, [Next]_vars PROVE MissInv'
  BY <1>2, NextGenuine, NextThorough, PostHolds, OtherSteps, PostMisses,
     OtherMisses
<1>3. QED
  BY <1>1, <1>2, PTL DEF Spec

-----------------------------------------------------------------------------
(* A tree that nobody edits.                                               *)

Threads == [find : SUBSET Paths, todo : SUBSET Paths, test : Nat,
            valid : SUBSET Paths, failed : BOOLEAN]

\* What a thread knows of a tree that stands still: which of the candidates it
\* is done with are valid, and that the reads it has made of the next one all
\* sent it on to another.
ThreadInv(c, t) ==
    /\ t.find \subseteq Present
    /\ t.todo \subseteq Candidates[c] \cap Present
    /\ t.failed = FALSE
    /\ t.valid = {p \in (Candidates[c] \cap Present) \ t.todo : Valid(c, disk[p])}
    /\ t.test \in 1..Len(Tests(c))
    /\ t.todo # {} => \A m \in 1..(t.test - 1) :
                          Outcome(c, m, disk[First(t.todo)]) = "next"

\* No file that was listed is missed, by the manifest or by a thread.
QuietInv ==
    /\ phase = "hash" => manifest.todo \subseteq Present
    /\ phase = "scan" => /\ found = Present
                         /\ thread \in [Checks -> Threads]
                         /\ \A c \in Checks : ThreadInv(c, thread[c])
    /\ QuietIsPinned

TreeInv ==
    /\ edits \in Nat
    /\ edits = 0 => DOMAIN disk \subseteq Paths /\ pinned = ManifestOf(disk)
    /\ Quiet => QuietInv

\* The tests of a check, read one after the other, decide what the condition
\* says that the source spells in one line, and none is asked for twice.
LEMMA TestsDecide ==
    ASSUME NEW c \in Checks, NEW text, NEW n \in 1..Len(Tests(c)),
           \A m \in 1..(n - 1) : Outcome(c, m, text) = "next"
    PROVE  /\ Outcome(c, n, text) = "next" => n + 1 \in 1..Len(Tests(c))
           /\ Outcome(c, n, text) = "good" => Valid(c, text)
           /\ Outcome(c, n, text) = "bad" => ~Valid(c, text)
           /\ Outcome(c, n, text) \in {"next", "good", "bad"}
           /\ 1 \in 1..Len(Tests(c))
<1>1. c \in Categories
  BY RulesAssumption
<1>2. CASE c = "rollback"
  <2>1. Len(Tests(c)) = 3
    BY <1>2 DEF Tests, Test
  <2>2. /\ Outcome(c, 1, text) = IF "set -e" \in text THEN "next" ELSE "bad"
        /\ Outcome(c, 2, text) = IF "undo" \in text THEN "good" ELSE "next"
        /\ Outcome(c, 3, text) = IF "revert" \in text THEN "good" ELSE "bad"
    BY <1>2 DEF Tests, Test, Outcome
  <2>3. Valid(c, text) <=> "set -e" \in text /\ ("undo" \in text \/ "revert" \in text)
    BY <1>2 DEF Valid
  <2>4. /\ Outcome(c, 1, text) \in {"next", "bad"}
        /\ Outcome(c, 2, text) \in {"good", "next"}
        /\ Outcome(c, 3, text) \in {"good", "bad"}
        /\ Outcome(c, 1, text) = "bad" => ~Valid(c, text)
        /\ Outcome(c, 1, text) = "next" /\ Outcome(c, 2, text) = "good"
               => Valid(c, text)
        /\ Outcome(c, 1, text) = "next" /\ Outcome(c, 2, text) = "next"
               => (Outcome(c, 3, text) = "good" <=> Valid(c, text))
    BY <2>2, <2>3, Zenon
  <2>5. CASE n = 1
    BY <2>1, <2>4, <2>5
  <2>6. CASE n = 2
    <3>1. Outcome(c, 1, text) = "next"
      BY <2>6
    <3>2. QED
      BY <2>1, <2>4, <2>6, <3>1
  <2>7. CASE n = 3
    <3>1. Outcome(c, 1, text) = "next" /\ Outcome(c, 2, text) = "next"
      BY <2>7
    <3>2. QED
      BY <2>1, <2>4, <2>7, <3>1
  <2>8. QED
    BY <2>1, <2>5, <2>6, <2>7
<1>3. CASE c = "tests"
  <2>1. Len(Tests(c)) = 2
    BY <1>3 DEF Tests, Test
  <2>2. /\ Outcome(c, 1, text) = IF "assert" \in text THEN "next" ELSE "bad"
        /\ Outcome(c, 2, text) = IF "assert True" \in text THEN "bad" ELSE "good"
    BY <1>3 DEF Tests, Test, Outcome
  <2>3. Valid(c, text) <=> "assert" \in text /\ "assert True" \notin text
    BY <1>3 DEF Valid
  <2>4. /\ Outcome(c, 1, text) \in {"next", "bad"}
        /\ Outcome(c, 2, text) \in {"good", "bad"}
        /\ Outcome(c, 1, text) = "bad" => ~Valid(c, text)
        /\ Outcome(c, 1, text) = "next"
               => (Outcome(c, 2, text) = "good" <=> Valid(c, text))
    BY <2>2, <2>3, Zenon
  <2>5. CASE n = 1
    BY <2>1, <2>4, <2>5
  <2>6. CASE n = 2
    <3>1. Outcome(c, 1, text) = "next"
      BY <2>6
    <3>2. QED
      BY <2>1, <2>4, <2>6, <3>1
  <2>7. QED
    BY <2>1, <2>5, <2>6
<1>4. CASE c = "ci"
  <2>1. Len(Tests(c)) = 2
    BY <1>4 DEF Tests, Test
  <2>2. /\ Outcome(c, 1, text) = IF "pytest" \in text THEN "good" ELSE "next"
        /\ Outcome(c, 2, text) = IF "npm test" \in text THEN "good" ELSE "bad"
    BY <1>4 DEF Tests, Test, Outcome
  <2>3. Valid(c, text) <=> "pytest" \in text \/ "npm test" \in text
    BY <1>4 DEF Valid
  <2>4. /\ Outcome(c, 1, text) \in {"good", "next"}
        /\ Outcome(c, 2, text) \in {"good", "bad"}
        /\ Outcome(c, 1, text) = "good" => Valid(c, text)
        /\ Outcome(c, 1, text) = "next"
               => (Outcome(c, 2, text) = "good" <=> Valid(c, text))
    BY <2>2, <2>3, Zenon
  <2>5. CASE n = 1
    BY <2>1, <2>4, <2>5
  <2>6. CASE n = 2
    <3>1. Outcome(c, 1, text) = "next"
      BY <2>6
    <3>2. QED
      BY <2>1, <2>4, <2>6, <3>1
  <2>7. QED
    BY <2>1, <2>5, <2>6
<1>5. CASE c = "iac"
  <2>1. Len(Tests(c)) = 1
    BY <1>5 DEF Tests, Test
  <2>2. Outcome(c, 1, text) = IF "resource" \in text THEN "good" ELSE "bad"
    BY <1>5 DEF Tests, Test, Outcome
  <2>3. Valid(c, text) <=> "resource" \in text
    BY <1>5 DEF Valid
  <2>4. QED
    BY <2>1, <2>2, <2>3
<1>6. CASE c = "cloud"
  <2>1. Len(Tests(c)) = 1
    BY <1>6 DEF Tests, Test
  <2>2. Outcome(c, 1, text) = IF "long" \in text THEN "good" ELSE "bad"
    BY <1>6 DEF Tests, Test, Outcome
  <2>3. Valid(c, text) <=> "long" \in text
    BY <1>6 DEF Valid
  <2>4. QED
    BY <2>1, <2>2, <2>3
<1>7. CASE c = "iam"
  <2>1. Len(Tests(c)) = 2
    BY <1>7 DEF Tests, Test
  <2>2. /\ Outcome(c, 1, text) = IF "long" \in text THEN "next" ELSE "bad"
        /\ Outcome(c, 2, text) = IF "{}" \in text THEN "bad" ELSE "good"
    BY <1>7 DEF Tests, Test, Outcome
  <2>3. Valid(c, text) <=> "long" \in text /\ "{}" \notin text
    BY <1>7 DEF Valid
  <2>4. /\ Outcome(c, 1, text) \in {"next", "bad"}
        /\ Outcome(c, 2, text) \in {"good", "bad"}
        /\ Outcome(c, 1, text) = "bad" => ~Valid(c, text)
        /\ Outcome(c, 1, text) = "next"
               => (Outcome(c, 2, text) = "good" <=> Valid(c, text))
    BY <2>2, <2>3, Zenon
  <2>5. CASE n = 1
    BY <2>1, <2>4, <2>5
  <2>6. CASE n = 2
    <3>1. Outcome(c, 1, text) = "next"
      BY <2>6
    <3>2. QED
      BY <2>1, <2>4, <2>6, <3>1
  <2>7. QED
    BY <2>1, <2>5, <2>6
<1>8. QED
  BY <1>1, <1>2, <1>3, <1>4, <1>5, <1>6, <1>7 DEF Categories

\* Looking at a candidate, in a tree that stands still, decides about it or
\* leads to another look.
LEMMA TestedThread ==
    ASSUME DOMAIN disk \subseteq Paths, NEW c \in Checks, NEW t \in Threads,
           ThreadInv(c, t), t.todo # {},
           NEW new, new = Tested(t, c, First(t.todo), disk[First(t.todo)])
    PROVE  new \in Threads /\ ThreadInv(c, new)
<1> DEFINE p == First(t.todo)
           o == Outcome(c, t.test, disk[p])
           candidates == Candidates[c] \cap Present
<1>1. /\ t.find \subseteq Present /\ t.find \subseteq Paths
      /\ t.todo \subseteq candidates /\ t.todo \subseteq Paths
      /\ t.valid \subseteq Paths
      /\ t.valid = {q \in candidates \ t.todo : Valid(c, disk[q])}
      /\ t.test \in 1..Len(Tests(c)) /\ t.test \in Nat
      /\ t.failed = FALSE
      /\ \A m \in 1..(t.test - 1) : Outcome(c, m, disk[p]) = "next"
  BY DEF ThreadInv, Threads
<1>2. p \in t.todo
  BY <1>1, FirstOfPaths, RulesAssumption
<1>3. /\ o = "next" => t.test + 1 \in 1..Len(Tests(c))
      /\ o = "good" => Valid(c, disk[p])
      /\ o = "bad" => ~Valid(c, disk[p])
      /\ o \in {"next", "good", "bad"}
      /\ 1 \in 1..Len(Tests(c))
  BY <1>1, TestsDecide
<1>4. CASE o = "next"
  <2>1. new = [t EXCEPT !.test = t.test + 1]
    BY <1>4 DEF Tested
  <2>2. /\ new.find = t.find /\ new.todo = t.todo /\ new.valid = t.valid
        /\ new.failed = FALSE /\ new.test = t.test + 1
        /\ new \in Threads
    BY <1>1, <2>1 DEF Threads
  <2>3. \A m \in 1..(new.test - 1) : Outcome(c, m, disk[First(new.todo)]) = "next"
    <3>1. \A m \in 1..t.test : m \in 1..(t.test - 1) \/ m = t.test
      BY <1>1
    <3>2. new.test - 1 = t.test
      BY <1>1, <2>2
    <3>3. QED
      BY <1>1, <1>4, <2>2, <3>1, <3>2
  <2>4. QED
    BY <1>1, <1>3, <1>4, <2>2, <2>3 DEF ThreadInv
<1>5. CASE o # "next"
  <2> DEFINE good == IF o = "good" THEN t.valid \cup {p} ELSE t.valid
  <2>1. new = [t EXCEPT !.test = 1, !.todo = t.todo \ {p}, !.valid = good]
    BY <1>5 DEF Tested
  <2>2. good \subseteq Paths
    BY <1>1, <1>2
  <2>3. good = {q \in candidates \ (t.todo \ {p}) : Valid(c, disk[q])}
    BY <1>1, <1>2, <1>3, <1>5
  <2> DEFINE rest == t.todo \ {p}
  <2>7. rest \subseteq Paths /\ t.find \subseteq Paths /\ 1 \in Nat
    BY <1>1
  <2>8. new = [t EXCEPT !.test = 1, !.todo = rest, !.valid = good]
    BY <2>1
  <2> HIDE DEF good, rest, p, o, candidates
  <2>9. /\ new.find = t.find /\ new.todo = rest /\ new.valid = good
        /\ new.failed = t.failed /\ new.test = 1
    BY <2>8 DEF Threads
  <2>10. new \in Threads
    BY <2>2, <2>7, <2>8 DEF Threads
  <2>4. /\ new.find = t.find /\ new.todo = t.todo \ {p} /\ new.valid = good
        /\ new.failed = FALSE /\ new.test = 1
    BY <1>1, <2>9 DEF rest
  <2>5. \A m \in 1..(new.test - 1) : Outcome(c, m, disk[First(new.todo)]) = "next"
    BY <2>4
  <2>6. QED
    BY <1>1, <1>3, <2>3, <2>4, <2>5, <2>10 DEF ThreadInv, candidates
<1>6. QED
  BY <1>4, <1>5

LEMMA ReadThread ==
    ASSUME DOMAIN disk \subseteq Paths, NEW c \in Checks, NEW t \in Threads,
           ThreadInv(c, t), t.find \cup t.todo # {},
           NEW p, p = First(IF t.find # {} THEN t.find ELSE t.todo),
           NEW new,
           new = IF p \notin Present
                 THEN [t EXCEPT !.find = {}, !.todo = {}, !.failed = TRUE]
                 ELSE IF t.find # {} THEN [t EXCEPT !.find = @ \ {p}]
                 ELSE Tested(t, c, p, disk[p])
    PROVE  new \in Threads /\ ThreadInv(c, new)
<1>1. /\ t.find \subseteq Present /\ t.find \subseteq Paths
      /\ t.todo \subseteq Present /\ t.todo \subseteq Paths
  BY DEF ThreadInv, Threads
<1>2. CASE t.find # {}
  <2>1. p \in t.find
    BY <1>1, <1>2, FirstOfPaths, RulesAssumption
  <2>2. new = [t EXCEPT !.find = t.find \ {p}]
    BY <1>1, <1>2, <2>1
  <2>3. /\ new.find = t.find \ {p} /\ new.todo = t.todo /\ new.valid = t.valid
        /\ new.failed = t.failed /\ new.test = t.test
        /\ new \in Threads
    BY <1>1, <2>2 DEF Threads
  <2>4. QED
    BY <2>3 DEF ThreadInv
<1>3. CASE t.find = {}
  <2>1. t.todo # {} /\ p = First(t.todo)
    BY <1>3
  <2>2. p \in Present
    BY <1>1, <2>1, FirstOfPaths, RulesAssumption
  <2>3. new = Tested(t, c, First(t.todo), disk[First(t.todo)])
    BY <1>3, <2>1, <2>2
  <2>4. QED
    BY <2>1, <2>3, TestedThread
<1>4. QED
  BY <1>2, <1>3

\* A thread that has just started.
LEMMA ListThread ==
    ASSUME DOMAIN disk \subseteq Paths, root = {}, NEW c \in Checks,
           NEW t,
           t = [find |-> Present, todo |-> CandidatesIn(c, Present), test |-> 1,
                valid |-> {}, failed |-> FALSE]
    PROVE  t \in Threads /\ ThreadInv(c, t)
<1>1. /\ t.find = Present /\ t.todo = Candidates[c] \cap Present
      /\ t.test = 1 /\ t.valid = {} /\ t.failed = FALSE
  BY DEF CandidatesIn
<1>2. t \in Threads
  BY DEF Threads, CandidatesIn, Present
<1>3. 1 \in 1..Len(Tests(c))
  <2>1. c \in Categories
    BY RulesAssumption
  <2>2. Len(Tests(c)) \in {1, 2, 3}
    BY <2>1 DEF Tests, Test, Categories
  <2>3. QED
    BY <2>2
<1>4. QED
  BY <1>1, <1>2, <1>3 DEF ThreadInv

\* The manifest of a tree without compiled files is the tree itself.
LEMMA PinnedIsDisk ==
    ASSUME Quiet, pinned = ManifestOf(disk)
    PROVE  InventoryOf(pinned) =
               [c \in Checks |-> Entry(Candidates[c] \cap Present,
                    {p \in Candidates[c] \cap Present : Valid(c, disk[p])})]
<1>1. Present \ Unpinned = Present
  BY DEF Quiet
<1>2. DOMAIN pinned = Present /\ \A p \in Present : pinned[p] = disk[p]
  BY <1>1 DEF ManifestOf, Restrict, Present
<1>3. ASSUME NEW c \in Checks
      PROVE  {p \in Candidates[c] \cap Present : Valid(c, pinned[p])} =
                 {p \in Candidates[c] \cap Present : Valid(c, disk[p])}
  BY <1>2
<1>4. QED
  BY <1>2, <1>3, Zenon DEF InventoryOf

\* What a step may assume and must show when the tree stays quiet.
QuietStep ==
    /\ Quiet /\ Quiet' /\ QuietInv /\ Handled
    /\ DOMAIN disk \subseteq Paths /\ pinned = ManifestOf(disk)
    /\ UNCHANGED diskVars

LEMMA QuietPost ==
    ASSUME QuietStep, NEW wellFormed \in BOOLEAN, NEW s \in {Local} \cup snapshots,
           NEW e \in {NoValue} \cup evidences, Post(wellFormed, s, e)
    PROVE  QuietInv'
<1>1. phase' \in {"hash", "done"} /\ request' = [connector |-> s, evidence |-> e]
      /\ Present' = Present
  BY DEF Post, Answer, Present, QuietStep, diskVars
<1>2. phase' = "hash" => manifest'.todo \subseteq Present'
  BY <1>1 DEF Post, Answer
<1>3. ASSUME phase' = "done", s = Local
      PROVE  answer' # Silent /\ answer'.outcome # "DISCOVERY_COMPLETED"
  BY <1>3 DEF Post, Answer, Refused, PilotDenied, Silent
<1>4. QuietIsPinned'
  BY <1>1, <1>3 DEF QuietIsPinned, OnFixture, Complete
<1>5. QED
  BY <1>1, <1>2, <1>4 DEF QuietInv

LEMMA QuietHash ==
    ASSUME QuietStep, HashFile \/ Resolve
    PROVE  QuietInv'
<1>1. phase = "hash" /\ Present' = Present
  BY DEF HashFile, Resolve, Present, QuietStep, diskVars
<1>2. CASE HashFile
  <2> DEFINE p == First(manifest.todo)
  <2>1. manifest.todo \subseteq Present /\ manifest.todo # {}
    BY <1>1, <1>2 DEF QuietStep, QuietInv, HashFile
  <2>2. p \in Present
    BY <2>1, FirstOfPaths, RulesAssumption DEF QuietStep, Present
  <2>3. /\ manifest'.todo = manifest.todo \ {p}
        /\ phase' = "hash"
    BY <1>1, <1>2, <2>2 DEF HashFile
  <2>4. QED
    BY <1>1, <2>1, <2>3 DEF QuietInv, QuietIsPinned
<1>3. CASE Resolve
  <2>1. \/ phase' = "list"
        \/ phase' = "done" /\ answer' = Refused
    BY <1>3 DEF Resolve, Answer
  <2>2. QED
    BY <2>1 DEF QuietInv, QuietIsPinned, OnFixture, Complete, Refused, Silent
<1>4. QED
  BY <1>2, <1>3

LEMMA QuietScan ==
    ASSUME QuietStep, NEW c \in Checks, Read(c)
    PROVE  QuietInv'
<1> DEFINE t == thread[c]
           p == First(IF t.find # {} THEN t.find ELSE t.todo)
           new == IF p \notin Present
                  THEN [t EXCEPT !.find = {}, !.todo = {}, !.failed = TRUE]
                  ELSE IF t.find # {} THEN [t EXCEPT !.find = @ \ {p}]
                  ELSE Tested(t, c, p, disk[p])
<1>1. /\ phase = "scan" /\ phase' = "scan" /\ found' = found
      /\ t.find \cup t.todo # {}
      /\ thread' = [thread EXCEPT ![c] = new]
      /\ disk' = disk
  BY DEF Read, QuietStep, diskVars
<1>2. /\ found = Present /\ thread \in [Checks -> Threads]
      /\ \A d \in Checks : ThreadInv(d, thread[d])
  BY <1>1 DEF QuietStep, QuietInv
<1>3. t \in Threads /\ ThreadInv(c, t)
  BY <1>2
<1>4. DOMAIN disk \subseteq Paths
  BY DEF QuietStep
<1> HIDE DEF new, t
<1>5. new \in Threads /\ ThreadInv(c, new)
  BY <1>1, <1>3, <1>4, ReadThread, Zenon DEF new
<1>6. /\ thread' \in [Checks -> Threads]
      /\ \A d \in Checks : thread'[d] = IF d = c THEN new ELSE thread[d]
  BY <1>1, <1>2, <1>5
<1>7. \A d \in Checks : ThreadInv(d, thread[d])' <=> ThreadInv(d, thread'[d])
  BY <1>1, Zenon DEF ThreadInv, Present
<1>8. \A d \in Checks : ThreadInv(d, thread'[d])
  BY <1>2, <1>5, <1>6
<1>9. Present' = found'
  BY <1>1, <1>2 DEF Present
<1>10. QED
  BY <1>1, <1>6, <1>7, <1>8, <1>9 DEF QuietInv, QuietIsPinned

LEMMA QuietList == ASSUME QuietStep, List PROVE QuietInv'
<1> DEFINE new(c) == [find |-> Present, todo |-> CandidatesIn(c, Present),
                      test |-> 1, valid |-> {}, failed |-> FALSE]
<1>1. /\ phase' = "scan" /\ found' = Present /\ disk' = disk
      /\ thread' = [c \in Checks |-> new(c)]
      /\ DOMAIN disk \subseteq Paths /\ root = {}
  BY DEF List, QuietStep, diskVars, Quiet
<1>2. \A c \in Checks : new(c) \in Threads /\ ThreadInv(c, new(c))
  BY <1>1, ListThread
<1> HIDE DEF new
<1>3. /\ thread' \in [Checks -> Threads]
      /\ \A c \in Checks : thread'[c] = new(c)
  BY <1>1, <1>2
<1>4. \A c \in Checks : ThreadInv(c, thread[c])' <=> ThreadInv(c, thread'[c])
  BY <1>1, Zenon DEF ThreadInv, Present
<1>5. \A c \in Checks : ThreadInv(c, thread[c])'
  BY <1>2, <1>3, <1>4
<1>6. Present' = found'
  BY <1>1 DEF Present
<1>7. QED
  BY <1>1, <1>3, <1>5, <1>6 DEF QuietInv, QuietIsPinned

LEMMA QuietJoin == ASSUME QuietStep, Join PROVE QuietInv'
<1>1. /\ phase = "scan" /\ phase' = "done" /\ request' = request
      /\ pinned' = pinned /\ root = {}
      /\ \A c \in Checks : thread[c].find \cup thread[c].todo = {}
  BY DEF Join, Answer, QuietStep, diskVars, Quiet
<1>2. /\ found = Present
      /\ \A c \in Checks : ThreadInv(c, thread[c])
  BY <1>1 DEF QuietStep, QuietInv
<1>3. ASSUME NEW c \in Checks
      PROVE  /\ thread[c].failed = FALSE
             /\ thread[c].valid = {p \in Candidates[c] \cap Present : Valid(c, disk[p])}
             /\ CandidatesIn(c, found) = Candidates[c] \cap Present
  <2>1. thread[c].todo = {} /\ ThreadInv(c, thread[c])
    BY <1>1, <1>2
  <2>2. (Candidates[c] \cap Present) \ {} = Candidates[c] \cap Present
    OBVIOUS
  <2>3. QED
    BY <1>1, <1>2, <2>1, <2>2 DEF ThreadInv, CandidatesIn
<1>4. ~\E c \in Checks : thread[c].failed
  BY <1>3
<1>5. answer' = Completed([c \in Checks |->
                    Entry(CandidatesIn(c, found), thread[c].valid)])
  BY <1>4 DEF Join, Answer
<1>6. answer'.inventory = InventoryOf(pinned)
  <2>1. [c \in Checks |-> Entry(CandidatesIn(c, found), thread[c].valid)] =
            [c \in Checks |-> Entry(Candidates[c] \cap Present,
                 {p \in Candidates[c] \cap Present : Valid(c, disk[p])})]
    BY <1>3
  <2>2. QED
    BY <1>5, <2>1, PinnedIsDisk DEF Completed, QuietStep
<1>7. answer' # Silent
  BY <1>5 DEF Completed, Silent
<1>8. InventoryOf(pinned)' = InventoryOf(pinned)
  BY <1>1
<1>9. QED
  BY <1>1, <1>6, <1>7, <1>8 DEF QuietInv, QuietIsPinned

\* Steps of the connector and of create_dispatch.
LEMMA QuietElse ==
    ASSUME QuietStep, UNCHANGED <<phase, request, scanVars, answer>>
    PROVE  QuietInv'
<1>1. /\ disk' = disk /\ pinned' = pinned /\ phase' = phase /\ request' = request
      /\ manifest' = manifest /\ found' = found /\ thread' = thread
      /\ answer' = answer
  BY DEF QuietStep, diskVars, scanVars
<1>2. \A c \in Checks : ThreadInv(c, thread[c])' <=> ThreadInv(c, thread[c])
  BY <1>1 DEF ThreadInv, Present
<1>3. QuietIsPinned' <=> QuietIsPinned
  BY <1>1 DEF QuietIsPinned, OnFixture, Complete, QuietStep
<1>4. QED
  BY <1>1, <1>2, <1>3 DEF QuietStep, QuietInv, Present

LEMMA TreeMoves == Handled /\ TreeInv /\ [Next]_vars => TreeInv'
<1> SUFFICES ASSUME Handled, TreeInv, [Next]_vars PROVE TreeInv'
  OBVIOUS
<1>1. CASE edits' = edits + 1
  <2>1. edits' \in Nat /\ edits' # 0
    BY <1>1 DEF TreeInv
  <2>2. QED
    BY <2>1 DEF TreeInv, Quiet
<1>2. CASE UNCHANGED diskVars
  <2>1. Quiet' <=> Quiet
    BY <1>2 DEF diskVars, Quiet, Present
  <2>2. ASSUME Quiet' PROVE QuietInv'
    <3>1. QuietStep
      BY <1>2, <2>1, <2>2 DEF TreeInv, QuietStep, Quiet
    <3>2. \/ \E wellFormed \in BOOLEAN, s \in {Local} \cup snapshots,
                e \in {NoValue} \cup evidences : Post(wellFormed, s, e)
          \/ HashFile \/ Resolve \/ List \/ Join
          \/ \E c \in Checks : Read(c)
          \/ UNCHANGED <<phase, request, scanVars, answer>>
      BY DEF Next, Requests, CreateDispatch, Work, Write, Delete, Edited, vars
    <3>3. QED
      BY <3>1, <3>2, QuietPost, QuietHash, QuietScan, QuietList, QuietJoin,
         QuietElse
  <2>3. /\ edits' = edits
        /\ DOMAIN disk' \subseteq Paths <=> DOMAIN disk \subseteq Paths
        /\ (pinned = ManifestOf(disk))' <=> pinned = ManifestOf(disk)
    BY <1>2 DEF diskVars
  <2>4. QED
    BY <2>2, <2>3 DEF TreeInv
<1>3. edits' = edits + 1 \/ UNCHANGED diskVars
  BY DEF Next, Requests, CreateDispatch, Post, Work, HashFile, Resolve, List,
         Join, Read, Write, Delete, Edited, vars
<1>4. QED
  BY <1>1, <1>2, <1>3

\* Hashing, listing and the reads of the threads happen one after the other, in
\* any order among the threads.  As long as nobody edits the tree, they find
\* what was approved, and the request is answered.
THEOREM QuietTreeIsPinned == Spec => []QuietIsPinned
<1> DEFINE LocalInv == Genuine /\ Handled /\ FactsHold /\ TreeInv
<1>1. Init => LocalInv
  <2> SUFFICES ASSUME Init PROVE LocalInv
    OBVIOUS
  <2>1. Genuine /\ Handled /\ FactsHold
    BY DEF Init, GhInit, Genuine, Handled, FactsHold, OnGitHub, Complete
  <2>2. QuietInv
    BY DEF Init, QuietInv, QuietIsPinned
  <2>3. edits \in Nat /\ DOMAIN disk \subseteq Paths /\ pinned = ManifestOf(disk)
    BY WorktreesAssumption DEF Init
  <2>4. QED
    BY <2>1, <2>2, <2>3 DEF TreeInv
<1>2. ASSUME LocalInv, [Next]_vars PROVE LocalInv'
  BY <1>2, NextGenuine, PostHolds, OtherSteps, TreeMoves
<1>3. TreeInv => QuietIsPinned
  BY DEF TreeInv, QuietInv, QuietIsPinned
<1>4. QED
  BY <1>1, <1>2, <1>3, PTL DEF Spec

-----------------------------------------------------------------------------
(* A discovery comes to its end.                                           *)

\* What a discovery goes through, in a tree that may be edited at any time.
ScanInv ==
    /\ phase # "idle" => dispatch # NoValue
    /\ DOMAIN disk \subseteq Paths
    /\ phase = "hash" => manifest.todo \subseteq Paths
    /\ phase = "scan" => /\ thread \in [Checks -> Threads]
                         /\ \A c \in Checks : thread[c].test \in 1..Len(Tests(c))

\* The last test of a check decides, whatever the tests before it have read.
LEMMA LastTestDecides ==
    ASSUME NEW c \in Checks, NEW text, NEW n, n \in 1..Len(Tests(c)),
           Outcome(c, n, text) = "next"
    PROVE  n + 1 \in 1..Len(Tests(c))
<1>1. c \in Categories
  BY RulesAssumption
<1>2. Len(Tests(c)) \in {1, 2, 3}
  BY <1>1 DEF Tests, Test, Categories
<1>3. Outcome(c, Len(Tests(c)), text) \in {"good", "bad"}
  <2>1. CASE c = "rollback"
    <3>1. Len(Tests(c)) = 3
      BY <2>1 DEF Tests, Test
    <3>2. Outcome(c, 3, text) = IF "revert" \in text THEN "good" ELSE "bad"
      BY <2>1 DEF Tests, Test, Outcome
    <3>3. QED
      BY <3>1, <3>2
  <2>2. CASE c = "tests"
    <3>1. Len(Tests(c)) = 2
      BY <2>2 DEF Tests, Test
    <3>2. Outcome(c, 2, text) = IF "assert True" \in text THEN "bad" ELSE "good"
      BY <2>2 DEF Tests, Test, Outcome
    <3>3. Outcome(c, 2, text) \in {"good", "bad"}
      BY <3>2, Zenon
    <3>4. QED
      BY <3>1, <3>3
  <2>3. CASE c = "ci"
    <3>1. Len(Tests(c)) = 2
      BY <2>3 DEF Tests, Test
    <3>2. Outcome(c, 2, text) = IF "npm test" \in text THEN "good" ELSE "bad"
      BY <2>3 DEF Tests, Test, Outcome
    <3>3. Outcome(c, 2, text) \in {"good", "bad"}
      BY <3>2, Zenon
    <3>4. QED
      BY <3>1, <3>3
  <2>4. CASE c = "iac"
    <3>1. Len(Tests(c)) = 1
      BY <2>4 DEF Tests, Test
    <3>2. Outcome(c, 1, text) = IF "resource" \in text THEN "good" ELSE "bad"
      BY <2>4 DEF Tests, Test, Outcome
    <3>3. QED
      BY <3>1, <3>2
  <2>5. CASE c = "cloud"
    <3>1. Len(Tests(c)) = 1
      BY <2>5 DEF Tests, Test
    <3>2. Outcome(c, 1, text) = IF "long" \in text THEN "good" ELSE "bad"
      BY <2>5 DEF Tests, Test, Outcome
    <3>3. QED
      BY <3>1, <3>2
  <2>6. CASE c = "iam"
    <3>1. Len(Tests(c)) = 2
      BY <2>6 DEF Tests, Test
    <3>2. Outcome(c, 2, text) = IF "{}" \in text THEN "bad" ELSE "good"
      BY <2>6 DEF Tests, Test, Outcome
    <3>3. Outcome(c, 2, text) \in {"good", "bad"}
      BY <3>2, Zenon
    <3>4. QED
      BY <3>1, <3>3
  <2>7. QED
    BY <1>1, <2>1, <2>2, <2>3, <2>4, <2>5, <2>6 DEF Categories
<1>4. n # Len(Tests(c))
  BY <1>3
<1>5. QED
  BY <1>2, <1>4

\* Whatever text it reads, a thread is done with the file or asks the next test.
LEMMA TestedIsNearer ==
    ASSUME NEW c \in Checks, NEW t \in Threads, t.test \in 1..Len(Tests(c)),
           NEW p \in t.todo, NEW text
    PROVE  /\ Tested(t, c, p, text) \in Threads
           /\ Tested(t, c, p, text).test \in 1..Len(Tests(c))
           /\ Nearer(c, t, Tested(t, c, p, text))
<1> DEFINE o == Outcome(c, t.test, text)
           new == Tested(t, c, p, text)
           rest == t.todo \ {p}
           good == IF o = "good" THEN t.valid \cup {p} ELSE t.valid
<1>1. /\ t.find \subseteq Paths /\ t.todo \subseteq Paths /\ t.valid \subseteq Paths
      /\ t.failed \in BOOLEAN /\ t.test \in Nat
      /\ t.test \in 1..Len(Tests(c)) /\ p \in t.todo
      /\ t = [find |-> t.find, todo |-> t.todo, test |-> t.test,
              valid |-> t.valid, failed |-> t.failed]
  BY DEF Threads
<1>2. Len(Tests(c)) \in {1, 2, 3}
  <2>1. c \in Categories
    BY RulesAssumption
  <2>2. QED
    BY <2>1 DEF Tests, Test, Categories
<1>3. CASE o = "next"
  <2>1. new = [t EXCEPT !.test = t.test + 1]
    BY <1>3 DEF Tested
  <2>2. t.test + 1 \in 1..Len(Tests(c)) /\ t.test < t.test + 1
    BY <1>1, <1>3, LastTestDecides
  <2> HIDE DEF new, o
  <2>3. /\ new.find = t.find /\ new.todo = t.todo /\ new.test = t.test + 1
        /\ new \in Threads
    BY <1>1, <2>1 DEF Threads
  <2>4. Nearer(c, t, new)
    BY <1>2, <2>2, <2>3 DEF Nearer
  <2>5. QED
    BY <2>2, <2>3, <2>4 DEF new
<1>4. CASE o # "next"
  <2>1. new = [t EXCEPT !.test = 1, !.todo = rest, !.valid = good]
    BY <1>4 DEF Tested
  <2>2. rest \subseteq t.todo /\ rest # t.todo /\ rest \subseteq Paths /\ good \subseteq Paths
    BY <1>1
  <2> HIDE DEF new, o, rest, good
  <2>3. /\ new.find = t.find /\ new.todo = rest /\ new.test = 1
        /\ new \in Threads
    BY <1>1, <2>1, <2>2 DEF Threads
  <2>4. Nearer(c, t, new)
    BY <2>2, <2>3 DEF Nearer
  <2>5. QED
    BY <1>2, <2>3, <2>4 DEF new
<1>5. QED
  BY <1>3, <1>4

\* The file a thread reads next, and the thread after that.
NextFile(t) == First(IF t.find # {} THEN t.find ELSE t.todo)

AfterRead(t, c, text) ==
    IF NextFile(t) \notin Present THEN [t EXCEPT !.find = {}, !.todo = {}, !.failed = TRUE]
    ELSE IF t.find # {} THEN [t EXCEPT !.find = @ \ {NextFile(t)}]
    ELSE Tested(t, c, NextFile(t), text)

LEMMA ReadIsNearer ==
    ASSUME NEW c \in Checks, NEW t \in Threads, t.test \in 1..Len(Tests(c)),
           t.find \cup t.todo # {}, NEW text
    PROVE  LET new == AfterRead(t, c, text)
           IN  new \in Threads /\ new.test \in 1..Len(Tests(c)) /\ Nearer(c, t, new)
<1> DEFINE p == NextFile(t)
           new == AfterRead(t, c, text)
<1>1. /\ t.find \subseteq Paths /\ t.todo \subseteq Paths
      /\ p \in IF t.find # {} THEN t.find ELSE t.todo
  <2>1. t.find \subseteq Paths /\ t.todo \subseteq Paths
    BY DEF Threads
  <2>2. QED
    BY <2>1, FirstOfPaths, RulesAssumption DEF NextFile
<1> HIDE DEF p
<1>2. CASE p \notin Present
  <2>1. new = [t EXCEPT !.find = {}, !.todo = {}, !.failed = TRUE]
    BY <1>2 DEF AfterRead, p
  <2> HIDE DEF new
  <2>2. /\ new \in Threads /\ new.find = {} /\ new.todo = {} /\ new.test = t.test
    BY <2>1 DEF Threads
  <2>3. QED
    BY <2>2 DEF Nearer, new
<1>3. CASE p \in Present /\ t.find # {}
  <2>1. new = [t EXCEPT !.find = t.find \ {p}]
    BY <1>3 DEF AfterRead, p
  <2> HIDE DEF new
  <2>2. /\ new \in Threads /\ new.find = t.find \ {p} /\ new.todo = t.todo
        /\ new.test = t.test
    BY <1>1, <2>1 DEF Threads
  <2>3. QED
    BY <1>1, <1>3, <2>2 DEF Nearer, new
<1>4. CASE p \in Present /\ t.find = {}
  <2>1. new = Tested(t, c, p, text) /\ p \in t.todo
    BY <1>1, <1>4 DEF AfterRead, p
  <2>2. QED
    BY <2>1, TestedIsNearer
<1>5. QED
  BY <1>2, <1>3, <1>4

\* A step of a thread changes that thread only.
LEMMA ReadProgress ==
    ASSUME ScanInv, NEW c \in Checks, Read(c)
    PROVE  Progress /\ ScanInv'
<1> DEFINE t == thread[c]
           new == AfterRead(t, c, disk[NextFile(t)])
<1>1. /\ phase = "scan" /\ phase' = "scan" /\ dispatch' = dispatch /\ disk' = disk
      /\ t.find \cup t.todo # {}
      /\ thread' = [thread EXCEPT ![c] = new]
  BY DEF Read, diskVars, AfterRead, NextFile
<1>2. thread \in [Checks -> Threads] /\ \A q \in Checks : thread[q].test \in 1..Len(Tests(q))
  BY <1>1 DEF ScanInv
<1>3. new \in Threads /\ new.test \in 1..Len(Tests(c)) /\ Nearer(c, t, new)
  <2>1. t \in Threads /\ t.test \in 1..Len(Tests(c))
    BY <1>2
  <2> HIDE DEF t
  <2>2. QED
    BY <1>1, <2>1, ReadIsNearer
<1> HIDE DEF new
<1>4. thread'[c] = new /\ thread' \in [Checks -> Threads]
  BY <1>1, <1>2, <1>3
<1>5. Progress
  BY <1>1, <1>3, <1>4 DEF Progress
<1>6. \A q \in Checks : thread'[q].test \in 1..Len(Tests(q))
  BY <1>1, <1>2, <1>3, <1>4
<1>7. QED
  BY <1>1, <1>4, <1>5, <1>6 DEF ScanInv

\* Each step of the handler's own.
LEMMA WorkProgress == ScanInv /\ Work => Progress /\ ScanInv'
<1> SUFFICES ASSUME ScanInv, Work PROVE Progress /\ ScanInv'
  OBVIOUS
<1>1. CASE HashFile
  <2> DEFINE p == First(manifest.todo)
  <2>1. /\ phase = "hash" /\ manifest.todo # {} /\ manifest.todo \subseteq Paths
        /\ dispatch' = dispatch /\ disk' = disk /\ dispatch # NoValue
    BY <1>1 DEF HashFile, ScanInv, diskVars
  <2>2. p \in manifest.todo
    BY <2>1, FirstOfPaths, RulesAssumption
  <2>3. \/ phase' = "done"
        \/ /\ phase' = "hash"
           /\ manifest' = [todo |-> manifest.todo \ {p},
                           files |-> Put(manifest.files, p, disk[p])]
    BY <1>1, <2>1 DEF HashFile, Answer
  <2> HIDE DEF p
  <2>4. phase' = "hash" => manifest'.todo = manifest.todo \ {p}
    BY <2>3
  <2>5. QED
    BY <2>1, <2>2, <2>3, <2>4 DEF Progress, ScanInv
<1>2. CASE Resolve
  BY <1>2 DEF Resolve, Answer, diskVars, Progress, ScanInv
<1>3. CASE List
  <2> DEFINE new(c) == [find |-> Present, todo |-> CandidatesIn(c, Present),
                        test |-> 1, valid |-> {}, failed |-> FALSE]
  <2>1. /\ phase = "list" /\ phase' = "scan" /\ dispatch' = dispatch /\ disk' = disk
        /\ thread' = [c \in Checks |-> new(c)]
        /\ Present \subseteq Paths /\ dispatch # NoValue
    BY <1>3 DEF List, diskVars, ScanInv, Present
  <2>2. ASSUME NEW c \in Checks
        PROVE  new(c) \in Threads /\ new(c).test \in 1..Len(Tests(c))
    <3>1. Len(Tests(c)) \in {1, 2, 3}
      <4>1. c \in Categories
        BY RulesAssumption
      <4>2. QED
        BY <4>1 DEF Tests, Test, Categories
    <3>2. Present \subseteq Paths /\ CandidatesIn(c, Present) \subseteq Paths
      BY <2>1 DEF CandidatesIn
    <3>3. 1 \in Nat /\ {} \subseteq Paths /\ FALSE \in BOOLEAN /\ 1 \in 1..Len(Tests(c))
      BY <3>1
    <3>4. QED
      BY <3>2, <3>3 DEF Threads
  <2> HIDE DEF new
  <2>3. QED
    BY <2>1, <2>2 DEF Progress, ScanInv
<1>4. CASE Join
  BY <1>4 DEF Join, Answer, diskVars, Progress, ScanInv
<1>5. CASE \E c \in Checks : Read(c)
  BY <1>5, ReadProgress
<1>6. QED
  BY <1>1, <1>2, <1>3, <1>4, <1>5 DEF Work

\* All other steps leave a discovery where it is.
LEMMA ElseProgress ==
    ASSUME ScanInv, [Next]_vars, ~Work
    PROVE  /\ ScanInv'
           /\ Discovering => \/ UNCHANGED vars
                             \/ edits' = edits + 1 /\ UNCHANGED <<phase, manifest, thread>>
<1>1. CASE \E wellFormed \in BOOLEAN, s \in {Local} \cup snapshots,
              e \in {NoValue} \cup evidences : Post(wellFormed, s, e)
  <2>1. /\ phase = "idle" /\ dispatch # NoValue /\ dispatch' = dispatch /\ disk' = disk
        /\ phase' \in {"done", "hash"}
        /\ phase' = "hash" => manifest' = [todo |-> Present \ Unpinned, files |-> <<>>]
    BY <1>1 DEF Post, Answer, diskVars
  <2>2. phase' = "hash" => manifest'.todo = Present \ Unpinned
    BY <2>1
  <2>3. QED
    BY <2>1, <2>2 DEF ScanInv, Discovering, Present
<1>2. CASE dispatch = NoValue /\ UNCHANGED <<diskVars, phase, scanVars>>
  BY <1>2 DEF ScanInv, Discovering, diskVars, scanVars
<1>3. CASE \/ \E tree \in Trees : \E q \in DOMAIN tree : Write(q, tree[q])
           \/ \E q \in Paths : Delete(q)
  <2>1. /\ edits' = edits + 1 /\ dispatch' = dispatch /\ phase' = phase
        /\ manifest' = manifest /\ thread' = thread
    BY <1>3 DEF Write, Delete, Edited, scanVars
  <2>2. DOMAIN disk' \subseteq Paths
    <3>1. CASE \E tree \in Trees : \E q \in DOMAIN tree : Write(q, tree[q])
      BY <3>1, WorktreesAssumption DEF Write, Put, ScanInv
    <3>2. CASE \E q \in Paths : Delete(q)
      BY <3>2 DEF Delete, Restrict, Present, ScanInv
    <3>3. QED
      BY <1>3, <3>1, <3>2
  <2>3. QED
    BY <2>1, <2>2 DEF ScanInv
<1>4. CASE phase = "idle" /\ UNCHANGED <<dispatch, diskVars, phase, scanVars>>
  BY <1>4 DEF ScanInv, Discovering, diskVars, scanVars
<1>5. CASE UNCHANGED vars
  BY <1>5 DEF vars, ScanInv, diskVars, scanVars
<1>6. QED
  BY <1>1, <1>2, <1>3, <1>4, <1>5 DEF Next, Requests, CreateDispatch

\* However many files and checks there are and however the files are edited under
\* it, a discovery does not go back: every step of its own takes it nearer to its end.
THEOREM DiscoveryComesNearer == Spec => NearerTheEnd
<1>1. Init => ScanInv
  BY WorktreesAssumption DEF Init, ScanInv
<1>2. ScanInv /\ [Next]_vars => ScanInv'
  BY WorkProgress, ElseProgress
<1>3. ScanInv /\ [Next]_vars =>
          [Discovering => \/ Progress
                          \/ edits' = edits + 1 /\ UNCHANGED <<phase, manifest, thread>>]_vars
  BY WorkProgress, ElseProgress
<1>4. QED
  BY <1>1, <1>2, <1>3, PTL DEF Spec, NearerTheEnd
=============================================================================
