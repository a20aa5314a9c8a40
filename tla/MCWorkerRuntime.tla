-------------------------- MODULE MCWorkerRuntime --------------------------
(* Three checks with three, two and two reads; a rollback script, a policy *)
(* and a compiled test; two revisions of one GitHub repository, for two    *)
(* engagements, that may be dispatched, one with a file that is no text    *)
(* and one with too many bytes, and an approval that was not given.        *)
EXTENDS WorkerRuntime, TLC

Three == {"rollback", "tests", "iam"}

Files == 1..3

Names == [c \in Three |-> CASE c = "rollback" -> {2}
                            [] c = "tests"    -> {1, 3}
                            [] OTHER          -> {2}]

Reverts == {"set -e", "revert"}

Tree(script, test) == (2 :> script) @@ (3 :> test)

Worktrees ==
    {Tree({"set -e"}, {"assert"}), Tree(Reverts, {"assert", "assert True"}),
     Tree({"revert"}, {"assert"}) @@ (1 :> {})}

Blob(p, b, size) == [path |-> p, type |-> "blob", blob |-> b, size |-> size, safe |-> TRUE]

Forest ==
    ("v1" :> {Blob(1, "helper", 3), Blob(2, "undoes", 1), Blob(3, "checks", 1)})
        @@ ("v2" :> {Blob(1, "checks", 1), Blob(2, "reverts", 1), Blob(3, "vacuous", 1)})
        @@ ("v3" :> {Blob(1, "image", 1), Blob(3, "checks", 1)})
        @@ ("v4" :> {Blob(1, "checks", 2), Blob(2, "reverts", 2)})

Contents ==
    ("helper" :> {"assert"}) @@ ("undoes" :> {"set -e", "undo"})
        @@ ("reverts" :> Reverts \cup {"long"}) @@ ("checks" :> {"assert"})
        @@ ("vacuous" :> {"assert", "assert True"}) @@ ("image" :> {})

Repo(owner, revision) == [id |-> "repo", owner |-> owner, revision |-> revision]

Approval(engagement, revision, status) ==
    [org |-> "o", engagement |-> engagement,
     repository |-> Repo("acme", revision), status |-> status]

Given ==
    {Approval("e1", "v1", "APPROVED"), Approval("e2", "v2", "APPROVED"),
     Approval("e3", "v1", "REJECTED"), Approval("e1", "v3", "APPROVED"),
     Approval("e1", "v4", "APPROVED")}

Registry ==
    {[id |-> "repo", connector |-> "github", revisions |-> {"v1", "v2"}],
     [id |-> "fixture", connector |-> "local", revisions |-> {"f1"}]}

TheFixture == [id |-> "fixture", connector |-> "local", revision |-> "f1"]

Humans == {[blueprint |-> "b", status |-> s] : s \in {"APPROVED", "REJECTED"}}
=============================================================================
