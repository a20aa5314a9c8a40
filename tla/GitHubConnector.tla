-------------------------- MODULE GitHubConnector --------------------------
(***************************************************************************)
(* github_connector.py: snapshots of approved revisions, and redacted      *)
(* evidence about their files, taken over a read-only API whose answers    *)
(* may be about another object, truncated or unreadable.  A refused call   *)
(* leaves no artifact: refusals are steps that are not taken.  The API is  *)
(* external: an answer that names an object carries that object (the       *)
(* connector compares the names, it does not hash the content again).      *)
(***************************************************************************)
EXTENDS DiscoveryRules, FiniteSetsExt

CONSTANTS
    Approvals,       \* [org, engagement, repository: [id, owner, revision], status]
    TreeOf,          \* TreeOf[revision]: the entries of its tree
    TextOf,          \* TextOf[blob]: what is in it
    Utf8,            \* the blobs that are UTF-8 text
    RuleCandidates,  \* RuleCandidates[c]: the paths rule c looks for
    TextSuffix,      \* the paths with one of _TEXT_SUFFIXES
    MaxFiles, MaxFileBytes, MaxTotalBytes

ASSUME TreesAssumption ==
    /\ \A revision \in DOMAIN TreeOf :
           /\ IsFiniteSet(TreeOf[revision])
           /\ \A f \in TreeOf[revision] : f.path \in Paths
    /\ MaxFiles \in Nat

VARIABLES snapshots, evidences

ghVars == <<snapshots, evidences>>

Revisions == DOMAIN TreeOf

GhInit == snapshots = {} /\ evidences = {}

\* The commit and the tree that came back are the ones that were asked for.
AnswersFor(a, commit, tree) ==
    /\ a.status = "APPROVED"
    /\ commit = a.repository.revision
    /\ tree = commit

UniquePaths(files) == \A f, g \in files : f.path = g.path => f = g

\* snapshot: the commit request, the tree request and the checks on both.
Snapshot(a, commit, tree, truncated) ==
    LET files == {f \in TreeOf[tree] : f.type = "blob"} IN
    /\ AnswersFor(a, commit, tree)
    /\ ~truncated
    /\ \A f \in files : f.safe
    /\ UniquePaths(files)
    /\ snapshots' = snapshots \cup
           {[org |-> a.org, engagement |-> a.engagement,
             repository |-> a.repository, files |-> files]}
    /\ UNCHANGED evidences

\* Mutant: the files are counted before the large ones are left out.
CutThenFilter(files) ==
    {f \in files : /\ f.path \in TextSuffix /\ f.size <= MaxFileBytes
                   /\ Cardinality({g \in files : g.path < f.path}) < MaxFiles}

\* _eligible_content_files: the first MaxFiles small text files, by path.
Eligible(files) ==
    LET small == {f \in files : f.path \in TextSuffix /\ f.size <= MaxFileBytes}
    IN  {f \in small : Cardinality({g \in small : g.path < f.path}) < MaxFiles}

WithinTotal(files) == MapThenSumSet(LAMBDA f : f.size, files) <= MaxTotalBytes

Finding(c, f) == [category |-> c, path |-> f.path, blob |-> f.blob]

\* The files that rule c finds, looking at the names, then at the blobs.
Hits(c, files, answer) ==
    {f \in files : f.path \in RuleCandidates[c] /\ Matches(c, TextOf[answer[f.path]])}

\* content_evidence: every blob answer, in path order, must be bound to the
\* manifest and be text, or there is no evidence about any file.
ContentEvidence(s, answer) ==
    LET selected == Eligible(s.files) IN
    /\ s \in snapshots
    /\ WithinTotal(selected)
    /\ \A f \in selected : answer[f.path] = f.blob /\ answer[f.path] \in Utf8
    /\ evidences' = evidences \cup
           {[org |-> s.org, engagement |-> s.engagement,
             repository |-> s.repository, manifest |-> s.files,
             findings |-> UNION {{Finding(c, f) : f \in Hits(c, selected, answer)} :
                                 c \in Checks}]}
    /\ UNCHANGED snapshots

\* Any commit, tree and blobs may come back, in good order or not.
GhNext ==
    \/ \E a \in Approvals, commit, tree \in Revisions, truncated \in BOOLEAN :
           Snapshot(a, commit, tree, truncated)
    \/ \E s \in snapshots, answer \in [Paths -> DOMAIN TextOf] :
           ContentEvidence(s, answer)
=============================================================================
