-------------------------- MODULE DiscoveryRules --------------------------
(***************************************************************************)
(* What counts as evidence: the six checks of discovery.py on files of a   *)
(* working tree, and the six rules of github_connector.py on blobs.  A     *)
(* text is the set of the marks the checks look for in it; whether a file  *)
(* is a candidate of a check is decided by its path alone.                 *)
(***************************************************************************)
EXTENDS Naturals, Sequences, FiniteSets

CONSTANTS Checks,      \* the categories of CHECKS
          Paths,       \* relative paths; their order is that of sorted()
          Candidates   \* Candidates[c]: the paths whose name check c looks for

Categories == {"rollback", "tests", "ci", "iac", "cloud", "iam"}

Marks == {"set -e", "undo", "revert", "assert", "assert True", "pytest",
          "npm test", "resource", "long", "{}"}

ASSUME RulesAssumption ==
    /\ Checks \subseteq Categories
    /\ Paths \subseteq Nat
    /\ Candidates \in [Checks -> SUBSET Paths]

\* A check reads the file anew for every mark it asks for, in this order:
\* "good" and "bad" end the check, "next" goes on to the next read.
Test(mark, has, hasNot) == [mark |-> mark, has |-> has, hasNot |-> hasNot]

\* _scan: the tests of check c, one read each.
Tests(c) ==
    CASE c = "rollback" -> <<Test("set -e", "next", "bad"), Test("undo", "good", "next"),
                             Test("revert", "good", "bad")>>
      [] c = "tests"    -> <<Test("assert", "next", "bad"),
                             Test("assert True", "bad", "good")>>
      [] c = "ci"       -> <<Test("pytest", "good", "next"), Test("npm test", "good", "bad")>>
      [] c = "iac"      -> <<Test("resource", "good", "bad")>>
      [] c = "cloud"    -> <<Test("long", "good", "bad")>>
      [] OTHER          -> <<Test("long", "next", "bad"), Test("{}", "bad", "good")>>

\* Mutant: the first mark decides, the file is not read again.
ReadOnce(c, n, text) == IF Tests(c)[n].mark \in text THEN "good" ELSE Tests(c)[n].hasNot

\* What test n of check c concludes from the text it has read.
Outcome(c, n, text) ==
    IF Tests(c)[n].mark \in text THEN Tests(c)[n].has ELSE Tests(c)[n].hasNot

\* The condition as the source spells it, of a text that does not change.
Valid(c, text) ==
    CASE c = "rollback" -> "set -e" \in text /\ text \cap {"undo", "revert"} # {}
      [] c = "tests"    -> "assert" \in text /\ "assert True" \notin text
      [] c = "ci"       -> text \cap {"pytest", "npm test"} # {}
      [] c = "iac"      -> "resource" \in text
      [] c = "cloud"    -> "long" \in text
      [] OTHER          -> "long" \in text /\ "{}" \notin text

\* _rules of the GitHub connector: one text in memory, and "undo" is no revert.
Matches(c, text) ==
    /\ Valid(c, text)
    /\ c = "rollback" => "revert" \in text

First(S) == CHOOSE p \in S : \A q \in S : p <= q

\* A category's entry in the inventory: a fact about the first valid file, a
\* low-quality fact about the first candidate, or a gap.
Gap == [status |-> "missing"]
Fact(status, p) == [status |-> status, path |-> p]

Entry(candidates, valid) ==
    IF candidates = {} THEN Gap
    ELSE IF valid = {} THEN Fact("present_low_quality", First(candidates))
    ELSE Fact("present", First(valid))

\* The inventory of a tree that nobody changes, read from its paths and texts.
InventoryOf(tree) ==
    [c \in Checks |->
        LET found == Candidates[c] \cap DOMAIN tree
        IN  Entry(found, {p \in found : Valid(c, tree[p])})]
=============================================================================
