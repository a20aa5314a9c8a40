----------------------------- MODULE MCFlywheel -----------------------------
EXTENDS Flywheel

Record(vertical, quality, trusted, low, rolledBack, rank) ==
    [shape |-> "outcome_record", vertical |-> vertical, quality |-> quality,
     trusted |-> trusted, low |-> low, rolledBack |-> rolledBack, rank |-> rank]

\* Two healthcare records of one class and one of the other, which is last in
\* the order of the split; one of another vertical, and one of an unknown source; and
\* lines that are refused by validation, that are another artifact, and that are torn.
Safe  == Record("healthcare", 9, TRUE, FALSE, FALSE, 1)
Rolls == Record("healthcare", 5, TRUE, TRUE, TRUE, 2)
Other == Record("finance", 9, TRUE, TRUE, TRUE, 2)
Alien == Record("finance", 9, FALSE, FALSE, FALSE, 1)
Bad   == [Safe EXCEPT !.shape = "malformed"]
Score == [Safe EXCEPT !.shape = "other_artifact"]
Torn  == [Safe EXCEPT !.shape = "no_json"]

MCRecords   == {Safe, Rolls, Other, Alien, Bad, Score, Torn}
MCVerticals == {"healthcare", "finance"}
MCPublished ==
    [sound : BOOLEAN, vertical : {"healthcare"}, rows : {<<Safe, Safe, Rolls>>}]

MCActions == {[files |-> 1, services |-> 0, data |-> FALSE],
              [files |-> 1, services |-> 0, data |-> TRUE]}
MCSpikes  == {10, 12, 17}
=============================================================================
