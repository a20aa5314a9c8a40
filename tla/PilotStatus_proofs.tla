------------------------ MODULE PilotStatus_proofs ------------------------
(***************************************************************************)
(* What appending an event does to the status a log of events amounts to.  *)
(* A maximum over a finite set cannot be had without induction over data,  *)
(* so that a log has a last move (HasLastMove) is carried along with the   *)
(* facts about it, from the empty log on.                                  *)
(***************************************************************************)
EXTENDS PilotStatus, TLAPS

HasLastMove(rows) ==
    MovesIn(rows) # {} => \E i \in MovesIn(rows) : \A k \in MovesIn(rows) : k <= i

\* A log of rows that have the type of a callback event.
IsLog(rows, Row) ==
    /\ rows \in Seq(Row)
    /\ \A r \in Row : r.type \in EventType
    /\ HasLastMove(rows)

\* What Append does to the domain and the elements of a sequence.
LEMMA AppendFacts ==
    ASSUME NEW Row, NEW rows \in Seq(Row), NEW r \in Row
    PROVE  /\ Append(rows, r) \in Seq(Row)
           /\ DOMAIN Append(rows, r) = DOMAIN rows \cup {Len(rows) + 1}
           /\ Append(rows, r)[Len(rows) + 1] = r
           /\ \A i \in DOMAIN rows : Append(rows, r)[i] = rows[i]
OBVIOUS

\* The empty log is a log, well ordered, of a queued job.
LEMMA EmptyLog ==
    ASSUME NEW Row, \A r \in Row : r.type \in EventType
    PROVE  IsLog(<<>>, Row) /\ StatusOf(<<>>) = "QUEUED" /\ WellOrdered(<<>>)
BY DEF IsLog, HasLastMove, MovesIn, StatusOf, WellOrdered

\* The last move of a log that has moves is the greatest of their indices.
LEMMA LastMoveIsMax ==
    ASSUME NEW rows, NEW Row, IsLog(rows, Row), MovesIn(rows) # {}
    PROVE  /\ LastMove(rows) \in MovesIn(rows)
           /\ \A k \in MovesIn(rows) : k <= LastMove(rows)
BY DEF IsLog, HasLastMove, LastMove

\* The moves of a log after one more row.
LEMMA AppendMoves ==
    ASSUME NEW rows, NEW Row, IsLog(rows, Row), NEW r \in Row
    PROVE  MovesIn(Append(rows, r)) =
               IF r.type \in Moves THEN MovesIn(rows) \cup {Len(rows) + 1}
                                   ELSE MovesIn(rows)
<1>1. /\ DOMAIN Append(rows, r) = 1..(Len(rows) + 1)
      /\ DOMAIN rows = 1..Len(rows)
      /\ Len(rows) \in Nat
      /\ \A i \in 1..Len(rows) : Append(rows, r)[i] = rows[i]
      /\ Append(rows, r)[Len(rows) + 1] = r
  BY DEF IsLog
<1>2. QED
  BY <1>1 DEF MovesIn

\* One more row moves the status a log amounts to exactly as record_callback
\* moves the status column.
LEMMA StatusOfAppend ==
    ASSUME NEW rows, NEW Row, IsLog(rows, Row), NEW r \in Row
    PROVE  /\ IsLog(Append(rows, r), Row)
           /\ StatusOf(Append(rows, r)) = StatusAfter(StatusOf(rows), r.type)
<1> DEFINE new == Append(rows, r)
<1>1. /\ DOMAIN rows = 1..Len(rows)
      /\ Len(rows) \in Nat
      /\ \A i \in 1..Len(rows) : new[i] = rows[i]
      /\ new[Len(rows) + 1] = r
      /\ new \in Seq(Row)
  BY DEF IsLog
<1>2. MovesIn(rows) \subseteq 1..Len(rows)
  BY <1>1 DEF MovesIn
<1>3. CASE r.type \in Moves
  <2>1. MovesIn(new) = MovesIn(rows) \cup {Len(rows) + 1}
    BY <1>3, AppendMoves
  <2>2. \A k \in MovesIn(new) : k <= Len(rows) + 1
    BY <2>1, <1>1, <1>2
  <2>3. IsLog(new, Row)
    BY <2>1, <2>2, <1>1 DEF IsLog, HasLastMove
  <2>4. LastMove(new) = Len(rows) + 1
    <3>1. /\ LastMove(new) \in MovesIn(new)
          /\ \A k \in MovesIn(new) : k <= LastMove(new)
      BY <2>1, <2>3, LastMoveIsMax
    <3>2. Len(rows) + 1 <= LastMove(new) /\ LastMove(new) <= Len(rows) + 1
      BY <2>1, <2>2, <3>1
    <3>3. LastMove(new) \in Nat
      BY <2>1, <3>1, <1>1, <1>2
    <3>4. QED
      BY <3>2, <3>3, <1>1
  <2>5. StatusOf(new) = Target(r.type)
    BY <2>1, <2>4, <1>1 DEF StatusOf
  <2>6. QED
    BY <2>3, <2>5, <1>3 DEF StatusAfter
<1>4. CASE r.type \notin Moves
  <2>1. MovesIn(new) = MovesIn(rows)
    BY <1>4, AppendMoves
  <2>2. IsLog(new, Row)
    BY <2>1, <1>1 DEF IsLog, HasLastMove
  <2>3. LastMove(new) = LastMove(rows)
    BY <2>1 DEF LastMove
  <2>4. StatusOf(new) = StatusOf(rows)
    <3>1. CASE MovesIn(rows) = {}
      BY <3>1, <2>1 DEF StatusOf
    <3>2. CASE MovesIn(rows) # {}
      <4>1. LastMove(rows) \in 1..Len(rows)
        BY <3>2, <1>2, LastMoveIsMax
      <4>2. new[LastMove(new)] = rows[LastMove(rows)]
        BY <4>1, <2>3, <1>1
      <4>3. QED
        BY <4>2, <3>2, <2>1 DEF StatusOf
    <3>3. QED
      BY <3>1, <3>2
  <2>5. QED
    BY <2>2, <2>4, <1>4 DEF StatusAfter
<1>5. QED
  BY <1>3, <1>4

\* Every log amounts to one of the four statuses the code ever writes.
LEMMA StatusOfRange ==
    ASSUME NEW rows, NEW Row, IsLog(rows, Row)
    PROVE  StatusOf(rows) \in {"QUEUED", "RUNNING", "PAUSED", "REVERTED"}
<1>1. CASE MovesIn(rows) = {}
  BY <1>1 DEF StatusOf
<1>2. CASE MovesIn(rows) # {}
  BY <1>2 DEF StatusOf, Target
<1>3. QED
  BY <1>1, <1>2

\* In a well-ordered log the status tells which rows there can be: none while
\* queued, nothing that stops the Pilot while running, no compensation while
\* paused.
LEMMA StatusBounds ==
    ASSUME NEW rows, NEW Row, IsLog(rows, Row), WellOrdered(rows)
    PROVE  /\ StatusOf(rows) = "QUEUED" => rows = <<>>
           /\ StatusOf(rows) = "RUNNING" =>
                  \A i \in DOMAIN rows :
                      rows[i].type \notin Pausing \cup {"COMPENSATING_REVERTED"}
           /\ StatusOf(rows) = "PAUSED" =>
                  \A i \in DOMAIN rows : rows[i].type # "COMPENSATING_REVERTED"
<1>1. /\ DOMAIN rows = 1..Len(rows)
      /\ Len(rows) \in Nat
      /\ rows # <<>> => 1 \in DOMAIN rows
      /\ MovesIn(rows) \subseteq 1..Len(rows)
  BY DEF IsLog, MovesIn
<1>2. StatusOf(rows) = "QUEUED" => rows = <<>>
  <2>1. ASSUME rows # <<>> PROVE 1 \in MovesIn(rows)
    BY <2>1, <1>1 DEF WellOrdered, Allowed, Moves, Pausing, MovesIn
  <2>2. QED
    BY <2>1 DEF StatusOf, Target
<1>3. ASSUME NEW i \in DOMAIN rows, rows[i].type = "COMPENSATING_REVERTED"
      PROVE  StatusOf(rows) = "REVERTED"
  <2>1. i \in MovesIn(rows)
    BY <1>3 DEF MovesIn, Moves
  <2>2. LastMove(rows) = i
    BY <2>1, <1>1, <1>3, LastMoveIsMax DEF WellOrdered
  <2>3. QED
    BY <2>1, <2>2, <1>3 DEF StatusOf, Target
<1>4. ASSUME NEW i \in DOMAIN rows, rows[i].type \in Pausing
      PROVE  StatusOf(rows) \in {"PAUSED", "REVERTED"}
  <2>1. i \in MovesIn(rows)
    BY <1>4 DEF MovesIn, Moves
  <2>2. LastMove(rows) \in MovesIn(rows) /\ i <= LastMove(rows)
    BY <2>1, LastMoveIsMax
  <2>3. rows[LastMove(rows)].type \in Pausing \cup {"COMPENSATING_REVERTED"}
    BY <2>2, <1>1, <1>4 DEF WellOrdered
  <2>4. QED
    BY <2>1, <2>3 DEF StatusOf, Target, Pausing
<1>5. QED
  BY <1>2, <1>3, <1>4

\* An event that the status admits keeps a log well ordered.
LEMMA WellOrderedAppend ==
    ASSUME NEW rows, NEW Row, IsLog(rows, Row), WellOrdered(rows),
           NEW r \in Row, r.type \in Allowed(StatusOf(rows))
    PROVE  WellOrdered(Append(rows, r))
<1> DEFINE new == Append(rows, r)
<1>1. /\ DOMAIN rows = 1..Len(rows)
      /\ DOMAIN new = 1..(Len(rows) + 1)
      /\ Len(rows) \in Nat
      /\ \A i \in 1..Len(rows) : new[i] = rows[i]
      /\ new[Len(rows) + 1] = r
      /\ rows = <<>> => Len(rows) = 0
      /\ rows # <<>> => 1 \in DOMAIN rows
  BY DEF IsLog
<1>2. StatusOf(rows) \in {"QUEUED", "RUNNING", "PAUSED"}
  BY StatusOfRange DEF Allowed
<1>3. new[1].type \in Allowed("QUEUED")
  <2>1. CASE rows = <<>>
    BY <2>1, <1>1, EmptyLog DEF IsLog
  <2>2. CASE rows # <<>>
    BY <2>2, <1>1 DEF WellOrdered
  <2>3. QED
    BY <2>1, <2>2
<1>4. ASSUME NEW i \in DOMAIN new, NEW k \in DOMAIN new, i < k
      PROVE  /\ new[k].type # "PILOT_STARTED"
             /\ new[i].type # "COMPENSATING_REVERTED"
             /\ new[i].type \in Pausing
                    => new[k].type = "COMPENSATING_REVERTED"
  <2>1. i \in DOMAIN rows /\ new[i] = rows[i] /\ rows # <<>>
    BY <1>1, <1>4
  <2>2. CASE k \in DOMAIN rows
    BY <2>1, <2>2, <1>1, <1>4 DEF WellOrdered
  <2>3. CASE k \notin DOMAIN rows
    <3>1. new[k] = r
      BY <2>3, <1>1
    <3>2. StatusOf(rows) \in {"RUNNING", "PAUSED"}
      BY <2>1, <1>2, StatusBounds
    <3>3. r.type # "PILOT_STARTED"
      BY <3>2 DEF Allowed, Pausing
    <3>4. rows[i].type # "COMPENSATING_REVERTED"
      BY <2>1, <3>2, StatusBounds
    <3>5. ASSUME rows[i].type \in Pausing PROVE r.type = "COMPENSATING_REVERTED"
      <4>1. StatusOf(rows) = "PAUSED"
        BY <2>1, <3>2, <3>5, StatusBounds
      <4>2. QED
        BY <4>1 DEF Allowed
    <3>6. QED
      BY <2>1, <3>1, <3>3, <3>4, <3>5
  <2>4. QED
    BY <2>2, <2>3
<1>5. QED
  BY <1>3, <1>4 DEF WellOrdered

-----------------------------------------------------------------------------
(* The logs of several jobs                                                *)

\* No two rows of the logs share an id.
OnceIn(log, Job) ==
    \A j, k \in Job : \A i \in DOMAIN log[j], m \in DOMAIN log[k] :
        log[j][i].id = log[k][m].id => <<j, i>> = <<k, m>>

\* Logs of all jobs, well ordered, in which every id occurs once.
Promises(log, Job, Row) ==
    /\ log \in [Job -> Seq(Row)]
    /\ \A j \in Job : IsLog(log[j], Row) /\ WellOrdered(log[j])
    /\ OnceIn(log, Job)

\* The logs after a row r has been appended to the log of j.
IsAppended(new, log, Job, j, r) ==
    /\ new[j] = Append(log[j], r)
    /\ \A k \in Job \ {j} : new[k] = log[k]

\* A row with a new id, appended to one of the logs.
LEMMA OnceAppend ==
    ASSUME NEW Job, NEW Row, NEW log \in [Job -> Seq(Row)], OnceIn(log, Job),
           NEW j \in Job, NEW r \in Row,
           \A k \in Job : \A i \in DOMAIN log[k] : log[k][i].id # r.id,
           NEW new, IsAppended(new, log, Job, j, r)
    PROVE  OnceIn(new, Job)
<1>1. /\ new[j] = Append(log[j], r)
      /\ \A k \in Job \ {j} : new[k] = log[k]
      /\ log[j] \in Seq(Row)
  BY DEF IsAppended
<1>2. /\ DOMAIN new[j] = DOMAIN log[j] \cup {Len(log[j]) + 1}
      /\ \A i \in DOMAIN log[j] : new[j][i] = log[j][i]
      /\ new[j][Len(log[j]) + 1] = r
  BY <1>1, AppendFacts
<1>3. ASSUME NEW k \in Job, NEW i \in DOMAIN new[k]
      PROVE  \/ i \in DOMAIN log[k] /\ new[k][i] = log[k][i]
             \/ k = j /\ i = Len(log[j]) + 1 /\ new[k][i] = r
  BY <1>1, <1>2
<1>4. ASSUME NEW k \in Job, NEW i \in DOMAIN new[k],
             NEW l \in Job, NEW m \in DOMAIN new[l], new[k][i].id = new[l][m].id
      PROVE  k = l /\ i = m
  <2>1. CASE i \in DOMAIN log[k] /\ new[k][i] = log[k][i]
    <3>1. new[l][m] # r
      BY <2>1, <1>4
    <3>2. m \in DOMAIN log[l] /\ new[l][m] = log[l][m]
      BY <3>1, <1>3
    <3>3. <<k, i>> = <<l, m>>
      BY <2>1, <3>2, <1>4 DEF OnceIn
    <3>4. QED
      BY <3>3
  <2>2. CASE k = j /\ i = Len(log[j]) + 1 /\ new[k][i] = r
    <3>1. ~(m \in DOMAIN log[l] /\ new[l][m] = log[l][m])
      BY <2>2, <1>4
    <3>2. QED
      BY <2>2, <3>1, <1>3
  <2>3. QED
    BY <1>3, <2>1, <2>2
<1>5. QED
  BY <1>4 DEF OnceIn

\* No event has been accepted yet.
LEMMA PromisesInit ==
    ASSUME NEW Job, NEW Row, \A r \in Row : r.type \in EventType
    PROVE  Promises([j \in Job |-> <<>>], Job, Row)
BY EmptyLog DEF Promises, OnceIn

\* Accepting an event, once and while the status its log amounts to admits it,
\* keeps the promises to all jobs, whatever the jobs and the rows.
LEMMA PromisesAccept ==
    ASSUME NEW Job, NEW Row, NEW log, Promises(log, Job, Row),
           NEW j \in Job, NEW r \in Row,
           \A k \in Job : \A i \in DOMAIN log[k] : log[k][i].id # r.id,
           r.type \in Allowed(StatusOf(log[j])),
           NEW new \in [Job -> Seq(Row)], IsAppended(new, log, Job, j, r)
    PROVE  Promises(new, Job, Row)
<1>1. /\ log \in [Job -> Seq(Row)]
      /\ IsLog(log[j], Row)
      /\ WellOrdered(log[j])
      /\ OnceIn(log, Job)
  BY DEF Promises
<1>2. IsLog(new[j], Row) /\ WellOrdered(new[j])
  BY <1>1, StatusOfAppend, WellOrderedAppend DEF IsAppended
<1>3. \A k \in Job : IsLog(new[k], Row) /\ WellOrdered(new[k])
  BY <1>2 DEF Promises, IsAppended
<1>4. OnceIn(new, Job)
  BY <1>1, OnceAppend
<1>5. QED
  BY <1>3, <1>4 DEF Promises
=============================================================================
