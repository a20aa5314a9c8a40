------------------------------ MODULE Flywheel ------------------------------
(***************************************************************************)
(* knowledge.py, flywheel.py and rubrics.publication: outcome records pass *)
(* a quality gate, the accepted records of a vertical are split, and their *)
(* refit is published or refused.  The corpus is a file that records are   *)
(* added to from outside, among them the outcomes the Pilot controller     *)
(* writes; each refit reads it anew.                                       *)
(***************************************************************************)
EXTENDS PilotController, FiniteSetsExt

CONSTANTS
    Records,      \* lines: [shape, vertical, quality, trusted, low, rolledBack, rank]
    Verticals,
    Published,    \* the publications a manifest may hold: [sound, vertical, rows]
    MinAccepted,  \* MIN_ACCEPTED_RECORDS
    MaxCorpus     \* bounds the corpus

\* What a line holds: an outcome record, JSON that validate_artifact refuses, an
\* artifact that is valid under another schema, or something that is no JSON.
Shapes == {"outcome_record", "malformed", "other_artifact", "no_json"}

\* What the gate asks of a record is yes, no or a number.
ASSUME RecordsAssumption ==
    \A r \in Records : r.shape \in Shapes /\ r.trusted \in BOOLEAN /\ r.quality \in Int

VARIABLES
    publication,  \* of the rubric that a refit releases
    corpus,       \* the lines of the file
    release       \* the last refit that was published

vars == <<pilotVars, publication, corpus, release>>

\* The record that monitor writes: evidence of quality 0.2, a metric breach.
PilotOutcome ==
    [shape |-> "outcome_record", vertical |-> "healthcare", quality |-> 2,
     trusted |-> TRUE, low |-> FALSE, rolledBack |-> FALSE, rank |-> 0]

\* An exception that nothing catches.
Raised == [status |-> "RAISED"]

Refused(reason) == [status |-> "REFUSED", reason |-> reason]

Init ==
    /\ PilotInit
    /\ publication \in Published
    /\ corpus = <<>> /\ release = Refused("none")

-----------------------------------------------------------------------------
(* The quality gate and the refit, as functions of the corpus.             *)

\* Mutant: the quality of the evidence is not asked for.
SourceOnly(r) ==
    IF r.shape = "malformed" THEN "malformed"
    ELSE IF r.shape = "other_artifact" THEN "KeyError"
    ELSE IF ~r.trusted THEN "untrusted_source" ELSE "accepted"

\* quality_gate, in tenths: it catches what validation raises, but not the KeyError
\* of a valid artifact that has no evidence quality, which it looks at before the source.
QualityGate(r) ==
    IF r.shape = "malformed" THEN "malformed"
    ELSE IF r.shape = "other_artifact" THEN "KeyError"
    ELSE IF r.quality < 5 THEN "low_evidence_quality"
    ELSE IF ~r.trusted THEN "untrusted_source" ELSE "accepted"

\* load reads every line before anything is done with one: it comes to an end if
\* each is JSON and passes the gate without an exception.
Loads ==
    \A i \in DOMAIN corpus :
        corpus[i].shape # "no_json" /\ QualityGate(corpus[i]) # "KeyError"

\* The accepted records of a vertical, in the order of their lines.
Rows(v) ==
    LET kept == {i \in DOMAIN corpus :
                    QualityGate(corpus[i]) = "accepted" /\ corpus[i].vertical = v}
        Line(k) == CHOOSE i \in kept : Cardinality({j \in kept : j < i}) = k - 1
    IN  [k \in 1..Cardinality(kept) |-> corpus[Line(k)]]

\* An untrusted record of any vertical.
Poisoned == \E i \in DOMAIN corpus : QualityGate(corpus[i]) = "untrusted_source"

\* _split: the last fifth, and at least one, in the order of the hashed ids.
Holdout(rows) ==
    LET size == IF Len(rows) < 10 THEN 1 ELSE Len(rows) \div 5
        later(i) == {k \in DOMAIN rows : \/ rows[k].rank > rows[i].rank
                                         \/ rows[k].rank = rows[i].rank /\ k > i}
    IN  {i \in DOMAIN rows : Cardinality(later(i)) < size}

\* How many holdout rows the more frequent class of the training rows gets
\* right (safe, if they are as frequent), and how many the candidate rule.
Baseline(rows) ==
    LET rolledBack(S) == Quantify(S, LAMBDA i : rows[i].rolledBack)
        training == DOMAIN rows \ Holdout(rows)
        hits == rolledBack(Holdout(rows))
    IN  IF 2 * rolledBack(training) > Cardinality(training)
        THEN hits ELSE Cardinality(Holdout(rows)) - hits

Candidate(rows) == Quantify(Holdout(rows), LAMBDA i : rows[i].low = rows[i].rolledBack)

\* Mutant: the publication is that of any corpus.
AnyCorpus(rows, v) == publication.vertical = v

\* The rows are, in this order, those that were approved for publication.
ApprovedCorpus(rows, v) == publication.vertical = v /\ publication.rows = rows

\* refit, in the order of its refusals; it catches nothing that load raises.
Refit(v) ==
    LET rows == Rows(v) IN
    IF ~Loads THEN Raised
    ELSE IF Poisoned THEN Refused("poison")
    ELSE IF Len(rows) < MinAccepted THEN Refused("insufficient")
    ELSE IF Candidate(rows) <= Baseline(rows) THEN Refused("not improved")
    ELSE IF ~publication.sound THEN Refused("no provenance")
    ELSE IF ~ApprovedCorpus(rows, v) THEN Refused("not the approved corpus")
    ELSE [status |-> "PUBLISHED", rows |-> rows,
          holdout |-> Candidate(rows), baseline |-> Baseline(rows)]

-----------------------------------------------------------------------------
(* The corpus grows, and a refit is asked for.                             *)

Contribute(r) ==
    /\ Len(corpus) < MaxCorpus
    /\ r = PilotOutcome => outcome
    /\ corpus' = Append(corpus, r)
    /\ UNCHANGED <<pilotVars, publication, release>>

Learn(v) ==
    /\ release' = IF Refit(v).status = "PUBLISHED" THEN Refit(v) ELSE release
    /\ UNCHANGED <<pilotVars, publication, corpus>>

Next ==
    \/ PilotNext /\ UNCHANGED <<publication, corpus, release>>
    \/ \E r \in Records \cup {PilotOutcome} : Contribute(r)
    \/ \E v \in Verticals : Learn(v)

Spec == Init /\ [][Next]_vars

-----------------------------------------------------------------------------
\* What a new line of the corpus does to the refits: one vertical's evidence
\* moves no other vertical's refit, and a record that validation refuses or of little
\* quality, like the outcomes of the Pilot itself, moves none at all, wherever
\* they come in the file.  Two kinds of lines reach every vertical: a convincing record
\* of an untrusted source has their refits refused, and a line that is no JSON, or
\* that is another artifact, has them raise, for good, whatever is added after it.
OnlyEvidenceMoves ==
    [][\A r \in Records \cup {PilotOutcome}, v \in Verticals :
           corpus' = Append(corpus, r) /\ Refit(v)' # Refit(v) =>
               /\ Refit(v) # Raised
               /\ IF r.shape = "outcome_record"
                  THEN /\ r.quality >= 5
                       /\ IF r.trusted THEN r.vertical = v
                                       ELSE Refit(v)' = Refused("poison")
                  ELSE r.shape # "malformed" /\ Refit(v)' = Raised]_vars

\* A release is made once: whatever is added to the corpus between two refits
\* that are published, and whoever asks for them, they are the same.
ReleasedOnce ==
    [][release' # release => release.status = "REFUSED"]_vars
=============================================================================
