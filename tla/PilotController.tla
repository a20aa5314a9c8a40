-------------------------- MODULE PilotController --------------------------
(***************************************************************************)
(* engine/pilot.py, monitor: a controller watches a metric of a Pilot      *)
(* workspace and takes a landed commit back with git revert.  The commits  *)
(* and git are external: a commit replaces what a file contains; reverting *)
(* it brings back what was there before if the file still holds what the   *)
(* commit made of it, is empty and fails if that is there already, and is  *)
(* a conflict otherwise, which leaves git in the middle of the revert.     *)
(***************************************************************************)
EXTENDS Naturals, Sequences

CONSTANTS
    Actions,     \* what is monitored: [files, services, data]
    TreeFiles,   \* the files that commits change
    Spikes,      \* the last metric less the mean, in eighths of sigma
    MaxCommits   \* bounds the commits

VARIABLES
    spike,       \* of the metrics the controller was constructed with
    content,     \* content[f]: the commit that made file f what it is, or 0
    landed,      \* landed[c]: the file of commit c and what it contained before
    reverting,   \* git is in the middle of a revert
    outcome,     \* outcome_record.json is there
    event        \* what the last call of monitor gave

gitVars   == <<content, landed, reverting>>
pilotVars == <<spike, gitVars, outcome, event>>

PilotInit ==
    /\ spike \in Spikes
    /\ content = [f \in TreeFiles |-> 0] /\ landed = <<>> /\ reverting = FALSE
    /\ outcome = FALSE /\ event = [status |-> "none", commit |-> 0]

-----------------------------------------------------------------------------
(* The agent lands commits, somebody aborts a revert git is in the middle  *)
(* of, and a controller is constructed with other metrics.                 *)

Land(f) ==
    /\ Len(landed) < MaxCommits
    /\ landed' = Append(landed, [file |-> f, before |-> content[f]])
    /\ content' = [content EXCEPT ![f] = Len(landed) + 1]
    /\ UNCHANGED <<spike, reverting, outcome, event>>

Abort ==
    /\ reverting /\ reverting' = FALSE
    /\ UNCHANGED <<spike, content, landed, outcome, event>>

Construct(value) ==
    /\ spike' = value
    /\ UNCHANGED <<gitVars, outcome, event>>

-----------------------------------------------------------------------------
(* The monitor.                                                            *)

BlastRadius(a) == a.files + 2 * a.services + (IF a.data THEN 3 ELSE 0)

\* The last metric exceeds the mean by more than 1.25 or 2 sigma.
Breach(a) == spike > (IF BlastRadius(a) >= 4 THEN 10 ELSE 16)

\* git revert c exits with 0, or leaves a conflict behind, or neither.
Reverts(c) == ~reverting /\ content[landed[c].file] = c

Conflicts(c) == content[landed[c].file] \notin {c, landed[c].before}

\* Mutant: without check=True the exit status is not looked at.
Unchecked(c) == TRUE

\* check=True: any exit status other than 0 raises CalledProcessError.
Succeeded(c) == Reverts(c)

\* What monitor answers: there is an outcome record unless the revert raised.
Answer(status, c) ==
    /\ event' = [status |-> status, commit |-> c]
    /\ outcome' = (outcome \/ status # "raised")

\* A breach by an action that did not land.
NothingToRevert(a) ==
    /\ Breach(a)
    /\ Answer("NOTHING_TO_REVERT", 0)
    /\ UNCHANGED <<spike, gitVars>>

\* A breach by an action that landed as commit c.  Nothing remembers that it
\* was answered: the next call answers it again.
Revert(a, c) ==
    /\ Breach(a)
    /\ content' = IF Reverts(c) THEN [content EXCEPT ![landed[c].file] = landed[c].before]
                  ELSE content
    /\ reverting' = (reverting \/ Conflicts(c))
    /\ Answer(IF Succeeded(c) THEN "REVERTED" ELSE "raised", c)
    /\ UNCHANGED <<spike, landed>>

PilotNext ==
    \/ \E f \in TreeFiles : Land(f)
    \/ \E value \in Spikes : Construct(value)
    \/ \E a \in Actions : NothingToRevert(a)
    \/ \E a \in Actions, c \in DOMAIN landed : Revert(a, c)
    \/ Abort

-----------------------------------------------------------------------------
\* What a file contains is in S, and so is whatever lies under a commit in S.
Holds(S) == /\ \A f \in TreeFiles : content[f] \in S
            /\ \A c \in S \ {0} : landed[c].before \in S

\* The commits whose changes lie under what a file contains.
Under == {c \in DOMAIN landed :
             \A S \in SUBSET (0..Len(landed)) : Holds(S) => c \in S}

\* A rollback event says REVERTED only of a commit whose change is gone, and it
\* stays gone: whatever conflicts, failed calls and aborted reverts came before
\* it, and however often monitor answers the same spike.
RevertedIsGone == event.status = "REVERTED" => event.commit \notin Under
=============================================================================
