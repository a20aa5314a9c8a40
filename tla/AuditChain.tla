---------------------------- MODULE AuditChain ----------------------------
(***************************************************************************)
(* The hash-chained audit log (audit_log.py) and the handoffs that extend  *)
(* it (run_handoff of orchestrator.py).  Sessions are processes that share *)
(* one log file; nothing locks it.  A handoff reads the file twice, once   *)
(* to verify it and once to find the predecessor of the new record, and    *)
(* then appends one line in a single write, of which a crash or a full     *)
(* disk may leave any prefix.                                              *)
(*                                                                         *)
(* A hash is what it commits to: an artifact stands for its own hash, and  *)
(* an entry hash for the handoffs from the first to that of the entry.     *)
(* Phase, rubric version, approvals and timestamp are not looked at again. *)
(***************************************************************************)
EXTENDS Naturals, Sequences

CONSTANTS Sessions,
          Artifacts,  \* what handoffs pass on
          MaxLines    \* handoffs begin while the log is shorter: bounds the model

ASSUME MaxLinesAssumption == MaxLines \in Nat

VARIABLES lines,      \* the lines of the file
          ended,      \* the last line has its newline
          session,    \* session[p]: the handoff p is making and how far it is
          acked,      \* records run_handoff has returned (a history variable)
          raced       \* some record was written although the log had changed
                      \* since it was verified (a history variable)

vars == <<lines, ended, session, acked, raced>>

Handoff == [inputs : Artifacts, outputs : Artifacts]

Hash == Seq(Handoff)

Record == [previous : Hash, handoff : Handoff]

\* A line that is not the JSON of one record.
Torn == [torn |-> TRUE]

Idle == [at |-> "idle"]

Session ==
    {Idle} \cup [at : {"verified"}, handoff : Handoff, stale : BOOLEAN]
           \cup [at : {"read"}, record : Record, stale : BOOLEAN]

TypeOK ==
    /\ lines \in Seq(Record \cup {Torn})
    /\ ended \in BOOLEAN
    /\ session \in [Sessions -> Session]
    /\ acked \subseteq Record
    /\ raced \in BOOLEAN

Init ==
    /\ lines = <<>>
    /\ ended = TRUE
    /\ session = [p \in Sessions |-> Idle]
    /\ acked = {}
    /\ raced = FALSE

-----------------------------------------------------------------------------
EntryHash(record) == Append(record.previous, record.handoff)

\* The entry hash of the last record, and the empty one of an empty log.
PreviousHash(log) == IF log = <<>> THEN <<>> ELSE EntryHash(log[Len(log)])

\* _entries: every line parses.
Readable(log) == \A i \in DOMAIN log : log[i] # Torn

\* verify: every record names the entry hash of the one before it.
Verified(log) ==
    /\ Readable(log)
    /\ \A i \in DOMAIN log :
           log[i].previous = IF i = 1 THEN <<>> ELSE EntryHash(log[i - 1])

\* Mutant: the inputs are not compared with the last record's outputs.
AnyInputs(log, inputs) == TRUE

\* The inputs are the outputs of the last record.
Continues(log, inputs) ==
    log # <<>> => log[Len(log)].handoff.outputs = inputs

\* run_handoff up to append_handoff; what it refuses leaves no trace.
Verify(p) ==
    /\ session[p] = Idle
    /\ Len(lines) < MaxLines
    /\ Verified(lines)
    /\ \E handoff \in Handoff :
           /\ Continues(lines, handoff.inputs)
           /\ session' = [session EXCEPT ![p] =
                  [at |-> "verified", handoff |-> handoff, stale |-> FALSE]]
    /\ UNCHANGED <<lines, ended, acked, raced>>

\* append_handoff reads the file again for the predecessor of its record; a
\* line that does not parse raises.
ReadPrevious(p) ==
    /\ session[p].at = "verified"
    /\ session' = [session EXCEPT ![p] =
           IF Readable(lines)
           THEN [at |-> "read", stale |-> @.stale,
                 record |-> [previous |-> PreviousHash(lines),
                             handoff |-> @.handoff]]
           ELSE Idle]
    /\ UNCHANGED <<lines, ended, acked, raced>>

\* Mutant: a line that does not parse is replaced.
Repaired(line) ==
    IF lines # <<>> /\ lines[Len(lines)] = Torn
    THEN [lines EXCEPT ![Len(lines)] = line]
    ELSE Append(lines, line)

\* Mutant: the file is written anew from the records that were read.
Rewritten(line) ==
    IF line = Torn
    THEN <<Torn>>
    ELSE Append(SubSeq(lines, 1, Len(line.previous)), line)

\* The file after more of it: what follows a line without its newline becomes
\* part of that line, and makes it unreadable.
Extended(line) ==
    IF ended THEN Append(lines, line) ELSE [lines EXCEPT ![Len(lines)] = Torn]

\* What a session had seen of the log is out of date.
Outdated(s) == IF s = Idle THEN Idle ELSE [s EXCEPT !.stale = TRUE]

\* p has written and its handoff is over.
Done(p) ==
    /\ session' = [q \in Sessions |->
                      IF q = p THEN Idle ELSE Outdated(session[q])]
    /\ raced' = (raced \/ session[p].stale)

\* The line is in the file and the record is returned.
AppendHandoff(p) ==
    /\ session[p].at = "read"
    /\ lines' = Extended(session[p].record)
    /\ ended' = TRUE
    /\ acked' = acked \cup {session[p].record}
    /\ Done(p)

\* A prefix of the line is written, all but the newline perhaps.
TornWrite(p) ==
    /\ session[p].at = "read"
    /\ \E line \in {Torn, session[p].record} : lines' = Extended(line)
    /\ ended' = FALSE
    /\ Done(p)
    /\ UNCHANGED acked

Crash(p) ==
    /\ session[p] # Idle
    /\ session' = [session EXCEPT ![p] = Idle]
    /\ UNCHANGED <<lines, ended, acked, raced>>

Next ==
    \E p \in Sessions :
        Verify(p) \/ ReadPrevious(p) \/ AppendHandoff(p) \/ TornWrite(p) \/ Crash(p)

Spec == Init /\ [][Next]_vars

-----------------------------------------------------------------------------
\* Each record takes up what the one before it put out.
Lineage(log) ==
    \A i \in DOMAIN log : i > 1 =>
        log[i].handoff.inputs = log[i - 1].handoff.outputs

\* The log is fail-closed about losses: as long as it verifies, it holds every
\* record run_handoff has returned, whatever sessions raced, crashed or wrote
\* behind a line without its newline.
VerifiedIsComplete ==
    Verified(lines) => \A r \in acked : \E i \in DOMAIN lines : lines[i] = r

\* Once a log does not verify it never will again: nothing the sessions do can
\* make the evidence of a fork or of a lost record disappear.
BrokenForever == [][~Verified(lines) => ~Verified(lines')]_vars

\* Sessions that take turns keep the log a chain of connected handoffs, through
\* any crashes, as long as its lines can be read.
SerialLog == ~raced /\ Readable(lines) => Verified(lines) /\ Lineage(lines)
=============================================================================
