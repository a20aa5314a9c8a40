------------------------- MODULE AuditChain_proofs -------------------------
(***************************************************************************)
(* What the audit log shows, for any number of sessions and artifacts and  *)
(* logs of any length.                                                     *)
(***************************************************************************)
EXTENDS AuditChain, TLAPS

-----------------------------------------------------------------------------
(* The lines of a file that grows                                          *)

LEMMA RecordsAreNotTorn == \A r \in Record : r # Torn
<1>1. ASSUME NEW r \in Record, r = Torn PROVE FALSE
  <2>1. DOMAIN r = {"previous", "handoff"}
    BY DEF Record
  <2>2. DOMAIN Torn = {"torn"}
    BY DEF Torn
  <2>3. "torn" \notin {"previous", "handoff"}
    OBVIOUS
  <2>4. QED
    BY <1>1, <2>1, <2>2, <2>3
<1>2. QED
  BY <1>1

\* A file grows by one line, or its last line is spoilt.
LEMMA ExtendedShape ==
    ASSUME TypeOK, ended \/ lines # <<>>, NEW line \in Record \cup {Torn}
    PROVE  /\ Extended(line) \in Seq(Record \cup {Torn})
           /\ \/ /\ ended
                 /\ DOMAIN Extended(line) = DOMAIN lines \cup {Len(lines) + 1}
                 /\ Len(Extended(line)) = Len(lines) + 1
                 /\ \A i \in DOMAIN lines : Extended(line)[i] = lines[i]
                 /\ Extended(line)[Len(lines) + 1] = line
              \/ /\ ~ended
                 /\ Len(lines) \in DOMAIN Extended(line)
                 /\ Extended(line)[Len(lines)] = Torn
BY DEF TypeOK, Extended

LEMMA SpoiltOrLonger ==
    ASSUME TypeOK, ended \/ lines # <<>>, NEW line \in Record \cup {Torn},
           Readable(Extended(line))
    PROVE  /\ ended
           /\ line # Torn
           /\ Readable(lines)
           /\ Len(lines) \in Nat /\ DOMAIN lines = 1..Len(lines)
           /\ DOMAIN Extended(line) = DOMAIN lines \cup {Len(lines) + 1}
           /\ Len(Extended(line)) = Len(lines) + 1
           /\ \A i \in DOMAIN lines : Extended(line)[i] = lines[i]
           /\ Extended(line)[Len(lines) + 1] = line
<1>1. ended
  BY ExtendedShape DEF Readable
<1>2. /\ DOMAIN Extended(line) = DOMAIN lines \cup {Len(lines) + 1}
      /\ Len(Extended(line)) = Len(lines) + 1
      /\ \A i \in DOMAIN lines : Extended(line)[i] = lines[i]
      /\ Extended(line)[Len(lines) + 1] = line
  BY <1>1, ExtendedShape
<1>3. line # Torn /\ Readable(lines)
  BY <1>2 DEF Readable
<1>4. Len(lines) \in Nat /\ DOMAIN lines = 1..Len(lines)
  BY DEF TypeOK
<1>5. QED
  BY <1>1, <1>2, <1>3, <1>4

\* No extension of a log that does not verify verifies.
LEMMA VerifiedBefore ==
    ASSUME TypeOK, ended \/ lines # <<>>, NEW line \in Record \cup {Torn},
           Verified(Extended(line))
    PROVE  Verified(lines)
<1>1. Readable(Extended(line))
  BY DEF Verified
<1>2. ASSUME NEW i \in DOMAIN lines
      PROVE  lines[i].previous = IF i = 1 THEN <<>> ELSE EntryHash(lines[i - 1])
  <2>1. i \in DOMAIN Extended(line) /\ Extended(line)[i] = lines[i]
    BY <1>1, SpoiltOrLonger
  <2>2. i # 1 => i - 1 \in DOMAIN lines /\ Extended(line)[i - 1] = lines[i - 1]
    BY <1>1, SpoiltOrLonger
  <2>3. Extended(line)[i].previous =
            IF i = 1 THEN <<>> ELSE EntryHash(Extended(line)[i - 1])
    BY <2>1 DEF Verified
  <2>4. QED
    BY <2>1, <2>2, <2>3
<1>3. QED
  BY <1>1, <1>2, SpoiltOrLonger DEF Verified

-----------------------------------------------------------------------------
(* Types                                                                   *)

\* A line without its newline is a line.
Lines == TypeOK /\ (ended \/ lines # <<>>)

LEMMA HashTypes ==
    /\ \A r \in Record : EntryHash(r) \in Hash
    /\ TypeOK /\ Readable(lines) => PreviousHash(lines) \in Hash
<1>1. \A r \in Record : EntryHash(r) \in Hash
  BY DEF Record, Hash, EntryHash
<1>2. ASSUME TypeOK, Readable(lines) PROVE PreviousHash(lines) \in Hash
  <2>1. CASE lines = <<>>
    BY <2>1 DEF PreviousHash, Hash
  <2>2. CASE lines # <<>>
    <3>1. Len(lines) \in DOMAIN lines /\ lines[Len(lines)] \in Record \cup {Torn}
      BY <1>2, <2>2 DEF TypeOK
    <3>2. lines[Len(lines)] \in Record
      BY <1>2, <3>1 DEF Readable
    <3>3. QED
      BY <1>1, <2>2, <3>2 DEF PreviousHash
  <2>3. QED
    BY <2>1, <2>2
<1>3. QED
  BY <1>1, <1>2

\* The stages of a session, by their tag.
LEMMA Stages ==
    ASSUME NEW s \in Session
    PROVE  /\ s.at = "verified" => /\ s # Idle
                                   /\ s.handoff \in Handoff
                                   /\ s.stale \in BOOLEAN
           /\ s.at = "read" => /\ s # Idle
                               /\ s.record \in Record
                               /\ s.stale \in BOOLEAN
           /\ Outdated(s) \in Session
           /\ Outdated(s).at = s.at
           /\ s.at \in {"verified", "read"} => Outdated(s).stale = TRUE
<1>1. CASE s = Idle
  BY <1>1 DEF Session, Idle, Outdated
<1>2. CASE s \in [at : {"verified"}, handoff : Handoff, stale : BOOLEAN]
  <2>1. s # Idle
    BY <1>2 DEF Idle
  <2>2. QED
    BY <1>2, <2>1 DEF Session, Outdated
<1>3. CASE s \in [at : {"read"}, record : Record, stale : BOOLEAN]
  <2>1. s # Idle
    BY <1>3 DEF Idle
  <2>2. QED
    BY <1>3, <2>1 DEF Session, Outdated
<1>4. QED
  BY <1>1, <1>2, <1>3 DEF Session

LEMMA WriteLines ==
    ASSUME Lines, NEW p \in Sessions, AppendHandoff(p) \/ TornWrite(p)
    PROVE  Lines'
<1>1. session[p] \in Session /\ session[p].record \in Record
  BY Stages DEF Lines, TypeOK, AppendHandoff, TornWrite
<1>2. PICK line \in {Torn, session[p].record} : lines' = Extended(line)
  BY DEF AppendHandoff, TornWrite
<1>3. lines' \in Seq(Record \cup {Torn}) /\ lines' # <<>>
  BY <1>1, <1>2, ExtendedShape DEF Lines
<1>4. session' \in [Sessions -> Session]
  <2>1. \A q \in Sessions : Outdated(session[q]) \in Session
    BY Stages DEF Lines, TypeOK
  <2>2. Idle \in Session
    BY DEF Session
  <2>3. Done(p)
    BY DEF AppendHandoff, TornWrite
  <2>4. QED
    BY <2>1, <2>2, <2>3 DEF Done
<1>5. raced' \in BOOLEAN
  BY <1>1, Stages DEF AppendHandoff, TornWrite, Done, Lines, TypeOK
<1>6. acked' \subseteq Record /\ ended' \in BOOLEAN
  BY <1>1 DEF AppendHandoff, TornWrite, Lines, TypeOK
<1>7. QED
  BY <1>3, <1>4, <1>5, <1>6 DEF Lines, TypeOK

LEMMA NextLines == Lines /\ [Next]_vars => Lines'
<1> SUFFICES ASSUME Lines, [Next]_vars PROVE Lines'
  OBVIOUS
<1>1. ASSUME NEW p \in Sessions, Verify(p) PROVE Lines'
  BY <1>1 DEF Verify, Lines, TypeOK, Session
<1>2. ASSUME NEW p \in Sessions, ReadPrevious(p) PROVE Lines'
  <2>1. /\ session[p].handoff \in Handoff /\ session[p].stale \in BOOLEAN
        /\ Readable(lines) => PreviousHash(lines) \in Hash
    BY <1>2, Stages, HashTypes DEF ReadPrevious, Lines, TypeOK
  <2>2. session' \in [Sessions -> Session]
    BY <1>2, <2>1 DEF ReadPrevious, Lines, TypeOK, Session, Record
  <2>3. QED
    BY <1>2, <2>2 DEF ReadPrevious, Lines, TypeOK
<1>3. ASSUME NEW p \in Sessions, Crash(p) PROVE Lines'
  BY <1>3 DEF Crash, Lines, TypeOK, Session
<1>4. CASE UNCHANGED vars
  BY <1>4 DEF vars, Lines, TypeOK
<1>5. QED
  BY <1>1, <1>2, <1>3, <1>4, WriteLines DEF Next

LEMMA InitLines == Init => Lines
<1> SUFFICES ASSUME Init PROVE Lines
  OBVIOUS
<1>1. session \in [Sessions -> Session]
  BY DEF Init, Session
<1>2. lines \in Seq(Record \cup {Torn}) /\ acked \subseteq Record
  BY DEF Init
<1>3. ended \in BOOLEAN /\ raced \in BOOLEAN /\ ended
  BY DEF Init
<1>4. QED
  BY <1>1, <1>2, <1>3 DEF Lines, TypeOK

\* The file holds records and torn lines, and sessions are where they can be.
THEOREM TypeCorrect == Spec => []TypeOK
<1>1. Lines => TypeOK
  BY DEF Lines
<1>2. QED
  BY <1>1, InitLines, NextLines, PTL DEF Spec

-----------------------------------------------------------------------------
(* Evidence that stays                                                     *)

\* How any step that writes changes the file.
LEMMA WriteShape ==
    ASSUME Lines, NEW p \in Sessions, AppendHandoff(p) \/ TornWrite(p)
    PROVE  \E line \in Record \cup {Torn} : lines' = Extended(line)
<1>1. session[p].record \in Record
  BY Stages DEF Lines, TypeOK, AppendHandoff, TornWrite
<1>2. QED
  BY <1>1 DEF AppendHandoff, TornWrite

\* No step of any session makes a log verify that did not.
THEOREM BrokenStaysBroken == Spec => BrokenForever
<1>1. ASSUME Lines, [Next]_vars, Verified(lines') PROVE Verified(lines)
  <2>1. CASE UNCHANGED lines
    BY <1>1, <2>1
  <2>2. ASSUME NEW p \in Sessions, AppendHandoff(p) \/ TornWrite(p)
        PROVE  Verified(lines)
    BY <1>1, <2>2, WriteShape, VerifiedBefore DEF Lines
  <2>3. QED
    BY <1>1, <2>1, <2>2 DEF Next, vars, Verify, ReadPrevious, Crash
<1>2. Init => Lines
  BY InitLines
<1>3. Lines /\ [Next]_vars => (~Verified(lines) => ~Verified(lines'))
  BY <1>1
<1>4. QED
  BY <1>2, <1>3, NextLines, PTL DEF Spec, BrokenForever

-----------------------------------------------------------------------------
(* Nothing acknowledged is missing from a log that verifies                *)

LEMMA WriteComplete ==
    ASSUME Lines, VerifiedIsComplete, NEW p \in Sessions,
           AppendHandoff(p) \/ TornWrite(p)
    PROVE  VerifiedIsComplete'
<1> SUFFICES ASSUME Verified(lines'), NEW r \in acked'
             PROVE  \E i \in DOMAIN lines' : lines'[i] = r
  BY DEF VerifiedIsComplete
<1>1. PICK line \in Record \cup {Torn} : lines' = Extended(line)
  BY WriteShape
<1>2. Verified(lines) /\ Readable(Extended(line))
  BY <1>1, VerifiedBefore DEF Lines, Verified
<1>3. CASE r \in acked
  <2>1. PICK i \in DOMAIN lines : lines[i] = r
    BY <1>2, <1>3 DEF VerifiedIsComplete
  <2>2. i \in DOMAIN lines' /\ lines'[i] = r
    BY <2>1, <1>1, <1>2, SpoiltOrLonger DEF Lines
  <2>3. QED
    BY <2>2
<1>4. CASE r \notin acked
  <2>1. AppendHandoff(p) /\ r = session[p].record
    BY <1>4 DEF AppendHandoff, TornWrite
  <2>2. r \in Record /\ lines' = Extended(r)
    BY <2>1, Stages DEF AppendHandoff, Lines, TypeOK
  <2>3. Len(lines) + 1 \in DOMAIN lines' /\ lines'[Len(lines) + 1] = r
    BY <2>2, <1>1, <1>2, SpoiltOrLonger DEF Lines
  <2>4. QED
    BY <2>3
<1>5. QED
  BY <1>3, <1>4

\* A log that verifies holds every record run_handoff has returned.
THEOREM NothingMissing == Spec => []VerifiedIsComplete
<1>1. Init => Lines /\ VerifiedIsComplete
  BY InitLines DEF Init, VerifiedIsComplete
<1>2. ASSUME Lines, VerifiedIsComplete, [Next]_vars PROVE VerifiedIsComplete'
  <2>1. CASE UNCHANGED <<lines, acked>>
    BY <1>2, <2>1 DEF VerifiedIsComplete
  <2>2. QED
    BY <1>2, <2>1, WriteComplete DEF Next, vars, Verify, ReadPrevious, Crash
<1>3. QED
  BY <1>1, <1>2, NextLines, PTL DEF Spec

-----------------------------------------------------------------------------
(* Sessions that take turns                                                *)

\* What a session that is not out of date knows: the log verifies and its
\* handoff continues it, and once it has read the last record that it extends
\* the chain.  SerialLog alone is not inductive: it says nothing of sessions.
Continuing ==
    \A p \in Sessions :
        /\ session[p].at = "verified" /\ ~session[p].stale =>
               Verified(lines) /\ Continues(lines, session[p].handoff.inputs)
        /\ session[p].at = "read" /\ ~session[p].stale =>
               /\ Verified(lines)
               /\ Continues(lines, session[p].record.handoff.inputs)
               /\ session[p].record.previous = PreviousHash(lines)

SerialInv == Continuing /\ SerialLog

\* After a write every other session is out of date.
LEMMA WriteContinuing ==
    ASSUME Lines, NEW p \in Sessions, AppendHandoff(p) \/ TornWrite(p)
    PROVE  Continuing'
<1>1. ASSUME NEW q \in Sessions, session'[q].at \in {"verified", "read"}
      PROVE  session'[q].stale = TRUE
  <2>1. q # p
    BY <1>1 DEF AppendHandoff, TornWrite, Done, Idle
  <2>2. session'[q] = Outdated(session[q]) /\ session[q] \in Session
    BY <2>1 DEF AppendHandoff, TornWrite, Done, Lines, TypeOK
  <2>3. QED
    BY <1>1, <2>2, Stages
<1>2. QED
  BY <1>1 DEF Continuing

LEMMA WriteSerial ==
    ASSUME Lines, SerialInv, NEW p \in Sessions,
           AppendHandoff(p) \/ TornWrite(p)
    PROVE  SerialLog'
<1> SUFFICES ASSUME ~raced', Readable(lines')
             PROVE  Verified(lines') /\ Lineage(lines')
  BY DEF SerialLog
<1>1. PICK line \in {Torn, session[p].record} : lines' = Extended(line)
  BY DEF AppendHandoff, TornWrite
<1>2. session[p].at = "read" /\ session[p] \in Session /\ session[p].record \in Record
  BY Stages DEF AppendHandoff, TornWrite, Lines, TypeOK
<1>3. ~session[p].stale /\ ~raced
  BY DEF AppendHandoff, TornWrite, Done
<1>4. /\ line = session[p].record
      /\ Readable(lines)
      /\ Len(lines) \in Nat /\ DOMAIN lines = 1..Len(lines)
      /\ DOMAIN lines' = DOMAIN lines \cup {Len(lines) + 1}
      /\ \A i \in DOMAIN lines : lines'[i] = lines[i]
      /\ lines'[Len(lines) + 1] = line
  BY <1>1, <1>2, SpoiltOrLonger DEF Lines
<1>5. /\ Verified(lines) /\ Lineage(lines)
      /\ Continues(lines, line.handoff.inputs)
      /\ line.previous = PreviousHash(lines)
  BY <1>2, <1>3, <1>4 DEF SerialInv, Continuing, SerialLog
<1>6. lines = <<>> <=> Len(lines) = 0
  BY DEF Lines, TypeOK
<1>7. ASSUME NEW i \in DOMAIN lines'
      PROVE  /\ lines'[i].previous =
                    IF i = 1 THEN <<>> ELSE EntryHash(lines'[i - 1])
             /\ i > 1 => lines'[i].handoff.inputs = lines'[i - 1].handoff.outputs
  <2>1. CASE i \in DOMAIN lines
    <3>1. i > 1 => i - 1 \in DOMAIN lines
      BY <1>4, <2>1
    <3>2. QED
      BY <2>1, <3>1, <1>4, <1>5 DEF Verified, Lineage
  <2>2. CASE i = Len(lines) + 1
    <3>1. CASE lines = <<>>
      BY <2>2, <3>1, <1>4, <1>5, <1>6 DEF PreviousHash
    <3>2. CASE lines # <<>>
      <4>1. i > 1 /\ i - 1 = Len(lines) /\ i - 1 \in DOMAIN lines
        BY <2>2, <3>2, <1>4, <1>6
      <4>2. lines'[i] = line /\ lines'[i - 1] = lines[Len(lines)]
        BY <2>2, <4>1, <1>4
      <4>3. /\ line.previous = EntryHash(lines[Len(lines)])
            /\ line.handoff.inputs = lines[Len(lines)].handoff.outputs
        BY <3>2, <1>5 DEF PreviousHash, Continues
      <4>4. QED
        BY <4>1, <4>2, <4>3
    <3>3. QED
      BY <3>1, <3>2
  <2>3. QED
    BY <2>1, <2>2, <1>4
<1>8. QED
  BY <1>7 DEF Verified, Lineage

LEMMA NextSerial == Lines /\ SerialInv /\ [Next]_vars => SerialInv'
<1> SUFFICES ASSUME Lines, SerialInv, [Next]_vars PROVE SerialInv'
  OBVIOUS
<1>1. ASSUME NEW p \in Sessions, Verify(p) PROVE SerialInv'
  <2>1. Continuing'
    BY <1>1 DEF Verify, SerialInv, Continuing, Lines, TypeOK
  <2>2. QED
    BY <1>1, <2>1 DEF Verify, SerialInv, SerialLog
<1>2. ASSUME NEW p \in Sessions, ReadPrevious(p) PROVE SerialInv'
  <2>1. UNCHANGED <<lines, raced>>
    BY <1>2 DEF ReadPrevious
  <2>2. \A q \in Sessions \ {p} : session'[q] = session[q]
    BY <1>2 DEF ReadPrevious, Lines, TypeOK
  <2>3. session[p].at = "verified" /\
            \/ session'[p] = Idle
            \/ session'[p] = [at |-> "read", stale |-> session[p].stale,
                              record |-> [previous |-> PreviousHash(lines),
                                          handoff |-> session[p].handoff]]
    BY <1>2 DEF ReadPrevious, Lines, TypeOK
  <2>4. Continuing'
    BY <2>1, <2>2, <2>3 DEF SerialInv, Continuing, Idle
  <2>5. QED
    BY <2>1, <2>4 DEF SerialInv, SerialLog
<1>3. ASSUME NEW p \in Sessions, Crash(p) PROVE SerialInv'
  <2>1. Continuing'
    BY <1>3 DEF Crash, SerialInv, Continuing, Lines, TypeOK, Idle
  <2>2. QED
    BY <1>3, <2>1 DEF Crash, SerialInv, SerialLog
<1>4. CASE UNCHANGED vars
  BY <1>4 DEF vars, SerialInv, SerialLog, Continuing
<1>5. QED
  BY <1>1, <1>2, <1>3, <1>4, WriteContinuing, WriteSerial DEF Next, SerialInv

\* As long as no handoff overlaps a write of another session, a log that can
\* be read is a chain of connected handoffs, through any crashes.
THEOREM SerialHandoffs == Spec => []SerialLog
<1>1. Init => Lines /\ SerialInv
  BY InitLines DEF Init, SerialInv, Continuing, SerialLog, Verified,
     Readable, Lineage, Idle
<1>2. SerialInv => SerialLog
  BY DEF SerialInv
<1>3. QED
  BY <1>1, <1>2, NextLines, NextSerial, PTL DEF Spec
=============================================================================
